---- MODULE Spec2Model ----
(***************************************************************************)
(* State-machine model of the password manager's server handlers:         *)
(* the five relations of db/schema.ts and the handlers of                  *)
(* handlers/vault-permissions.ts, handlers/categories.ts (categories and   *)
(* vaults), handlers/credential-items.ts and handlers/users.ts, and the    *)
(* token blacklist, logout and validateSession of handlers/auth.ts.       *)
(*                                                                         *)
(* A handler that runs alone is one action (the whole function).  The      *)
(* handlers are async functions that issue one SQL statement per await and *)
(* open no transaction, so requests that overlap interleave between        *)
(* statements: the request actions further down split a handler at its     *)
(* statements.                                                             *)
(***************************************************************************)
EXTENDS Integers, Sequences, FiniteSets, TLC

\* ------------------------------------------------------------------ bounds
MaxUsers == 2
MaxVaults == 2
MaxPermissions == 3
MaxExtraCategories == 1
MaxItems == 2
\* Requests in flight at once.
MaxProcs == 2
\* Vaults created where items and categories are exercised.
DataVaults == 1
\* Vaults and items created by requests that overlap.
ConcVaults == 1
ConcItems == 1
\* Code units of a text, bytes an IV is drawn from, encryptions of one text.
MaxTextLen == 2
MaxIvByte == 1
MaxEncryptions == 2
\* Code units of a password submitted for an item.
SecretLen == 1
\* Ticks of the clock, and tokens logged out.
MaxClock == 2
MaxLogouts == 2
\* Passwords a user may have or try.
MaxPasswords == 2
\* The longest password generatePassword is asked for (the schema's 128).
MaxLength == 16

\* ------------------------------------------------------------------ state
VARIABLES
  users,        \* usersTable: id -> [is_active, password_hash]; a user's email stands for its id
  vaults,       \* vaultsTable: id -> [owner_id, is_shared]
  categories,   \* categoriesTable: id -> [name, vault_id]
  items,        \* credentialItemsTable: id -> [title, type, vault_id, category_id, created_by, password_encrypted]
  perms,        \* vaultUserPermissionsTable: id -> [vault_id, user_id, permission, granted_by]
  serial,       \* the serial id sequences of the five tables (last id handed out)
  last,         \* the last handler call that ran alone and its outcome: [op, caller, input, err, ret]
  txn,          \* the requests in flight: process -> its position and locals
  cipher,       \* a text, the IVs drawn for it and what encrypt/decrypt made of it
  submitted,    \* item id -> the password last submitted for the item (what the client sent)
  auth          \* auth.ts: the clock (Date.now()) and tokenBlacklist

db == <<users, vaults, categories, items, perms, serial>>
vars == <<users, vaults, categories, items, perms, serial, last, txn, cipher, submitted, auth>>

\* SQL NULL / JS null / undefined, and a handler's normal completion.
NULL == "null"
OK == "ok"
\* A nullable integer column holds 0 for NULL (serial ids start at 1), a
\* nullable text column the empty sequence.
NoCategory == 0
\* The user handlers take no caller.
NoUser == 0
NoText == <<>>

VaultPermission == {"read", "write", "admin"}
DefaultCategoryNames == <<"Personal", "Work", "Banking", "Social">>

\* The messages of the errors the handlers throw.
ErrVaultNotFound == "Vault not found"
ErrGrantInsufficient == "Insufficient permissions: Only admin users can grant vault permissions"
ErrTargetNotFound == "Target user not found"
ErrTargetInactive == "Cannot grant permissions to inactive user"
ErrDuplicate == "User already has permissions for this vault"
ErrPermissionNotFound == "Permission not found"
ErrModifyInsufficient == "Insufficient permissions: Only admin users can modify vault permissions"
ErrSelfModification == "Cannot modify your own permissions"
ErrViewInsufficient == "Insufficient permissions: Only admin users can view vault permissions"
ErrRevokeInsufficient == "Insufficient permissions: Only admin users can revoke vault permissions"
ErrRevokeOwner == "Cannot revoke owner permissions"
ErrUpdateVaultInsufficient == "Insufficient permissions to update vault"
ErrDeleteVault == "Vault not found or insufficient permissions"
ErrUserNotFound == "User not found"
ErrItemInsufficient == "Insufficient permissions for vault"
ErrItemNotFound == "Credential item not found"
ErrCategoryNotFound == "Category not found"
ErrCreateCategoryInsufficient == "Insufficient permissions to create category in this vault"
ErrUpdateCategoryInsufficient == "Insufficient permissions to update this category"
ErrVaultAccessInsufficient == "Insufficient permissions to access this vault"
ErrCategoryAccessInsufficient == "Insufficient permissions to access this category"
ErrDeleteCategoryInsufficient == "Insufficient permissions to delete this category"
ErrDecrypt == "decrypt failed"
ErrInvalidLogin == "Invalid email or password"
ErrDisabled == "Account is disabled"
ErrByteLength == "Input buffers must have the same byte length"
ErrNoCharacterSets == "No character sets selected for password generation"

\* ------------------------------------------------------------------ helpers
Remove(f, ids) == [i \in DOMAIN f \ ids |-> f[i]]
Insert(f, id, row) == f @@ (id :> row)

\* rows[0] of a select without ORDER BY.  Which row comes first is up to the
\* store when several match; the lowest id is taken here, and wherever several
\* rows match in the behaviours checked below they carry the same level.
First(ids) == CHOOSE i \in ids : \A j \in ids : i <= j

\* A call is the handler's name with its arguments; last is the call with what
\* it returned (err = OK) or the message of the error it threw.
Call(op, caller, input) == [op |-> op, caller |-> caller, input |-> input]
Returned(call, ret) ==
  last' = [op |-> call.op, caller |-> call.caller, input |-> call.input,
           err |-> OK, ret |-> ret]
Thrown(call, msg) ==
  last' = [op |-> call.op, caller |-> call.caller, input |-> call.input,
           err |-> msg, ret |-> NULL]
Rejected(call, msg) == Thrown(call, msg) /\ UNCHANGED db

\* select ... from vault_user_permissions where vault_id = v and user_id = u
PermissionRows(v, u) ==
  {p \in DOMAIN perms : perms[p].vault_id = v /\ perms[p].user_id = u}

\* ------------------------------------------------------------------ users.ts
\* A digest is the record of its algorithm, its length in bytes and what was
\* hashed (the digests are taken to be free of collisions).  password_hash is
\* the text hash:salt, or the hash alone (NoSalt).
Sha256(text) == [alg |-> "sha256", bytes |-> 32, of |-> text]
Pbkdf2(password, salt) == [alg |-> "pbkdf2-sha512", bytes |-> 64, of |-> <<password, salt>>]
NoSalt == 0
\* randomBytes: one value stands for the salt drawn.
Salts == {1}
Passwords == 1 .. MaxPasswords
\* The input of the specifications that do not log in.
NewUser == [password |-> 1]

\* email, full_name and role are not modelled; emails are unique
\* (schema.ts), and the email of user id stands for id.
createUser(input) ==
  /\ serial.users < MaxUsers
  /\ \E salt \in Salts :
       LET id == serial.users + 1
           password_hash == [hash |-> Sha256(<<input.password, salt>>), salt |-> salt]
       IN
       /\ users' = Insert(users, id, [is_active |-> TRUE, password_hash |-> password_hash])
       /\ serial' = [serial EXCEPT !.users = id]
       /\ Returned(Call("createUser", NoUser, input), id)
  /\ UNCHANGED <<vaults, categories, items, perms>>

\* An optional input field is defined when its name is in input.present.
updateUser(input) ==
  IF input.id \notin DOMAIN users
    THEN Rejected(Call("updateUser", NoUser, input), ErrUserNotFound)
    ELSE /\ users' = [users EXCEPT ![input.id].is_active =
                        IF "is_active" \in input.present THEN input.is_active ELSE @]
         /\ Returned(Call("updateUser", NoUser, input), input.id)
         /\ UNCHANGED <<vaults, categories, items, perms, serial>>

deleteUser_grantsRevoked(id) ==
  /\ users' = [u \in DOMAIN users |->
                 IF u = id THEN [users[u] EXCEPT !.is_active = FALSE] ELSE users[u]]
  /\ perms' = Remove(perms, {p \in DOMAIN perms : perms[p].user_id = id})
  /\ Returned(Call("deleteUser", NoUser, id), id \in DOMAIN users)
  /\ UNCHANGED <<vaults, categories, items, serial>>

deleteUser(id) ==
  /\ users' = [u \in DOMAIN users |->
                 IF u = id THEN [users[u] EXCEPT !.is_active = FALSE] ELSE users[u]]
  /\ Returned(Call("deleteUser", NoUser, id), id \in DOMAIN users)
  /\ UNCHANGED <<vaults, categories, items, perms, serial>>

\* ------------------------------------------------------ vault-permissions.ts
getUserPermissionForVault_grantFirst(vaultId, userId) ==
  IF vaultId \notin DOMAIN vaults THEN ErrVaultNotFound
  ELSE IF PermissionRows(vaultId, userId) # {}
    THEN perms[First(PermissionRows(vaultId, userId))].permission
  ELSE IF vaults[vaultId].owner_id = userId THEN "owner"
  ELSE NULL

\* Returns "owner", a grant's level or NULL; ErrVaultNotFound stands for the throw.
getUserPermissionForVault(vaultId, userId) ==
  IF vaultId \notin DOMAIN vaults THEN ErrVaultNotFound
  ELSE IF vaults[vaultId].owner_id = userId THEN "owner"
  ELSE IF PermissionRows(vaultId, userId) = {} THEN NULL
  ELSE perms[First(PermissionRows(vaultId, userId))].permission

getUserPermissionForVaultQuery(vaultId, userId) ==
  LET r == getUserPermissionForVault(vaultId, userId) IN
  /\ IF r = ErrVaultNotFound
       THEN Thrown(Call("getUserPermissionForVault", userId, vaultId), ErrVaultNotFound)
       ELSE Returned(Call("getUserPermissionForVault", userId, vaultId), r)
  /\ UNCHANGED db

createVaultPermission_targetFirst(input, grantedByUserId) ==
  LET call == Call("createVaultPermission", grantedByUserId, input)
      grantingUserPermission == getUserPermissionForVault(input.vault_id, grantedByUserId)
  IN
  IF input.user_id \notin DOMAIN users THEN Rejected(call, ErrTargetNotFound)
  ELSE IF ~users[input.user_id].is_active THEN Rejected(call, ErrTargetInactive)
  ELSE IF grantingUserPermission = ErrVaultNotFound THEN Rejected(call, ErrVaultNotFound)
  ELSE IF grantingUserPermission \notin {"admin", "owner"} THEN Rejected(call, ErrGrantInsufficient)
  ELSE IF PermissionRows(input.vault_id, input.user_id) # {} THEN Rejected(call, ErrDuplicate)
  ELSE /\ serial.perms < MaxPermissions
       /\ LET id == serial.perms + 1 IN
            /\ perms' = Insert(perms, id, [vault_id |-> input.vault_id,
                                           user_id |-> input.user_id,
                                           permission |-> input.permission,
                                           granted_by |-> grantedByUserId])
            /\ serial' = [serial EXCEPT !.perms = id]
            /\ Returned(call, id)
       /\ UNCHANGED <<users, vaults, categories, items>>

createVaultPermission(input, grantedByUserId) ==
  LET call == Call("createVaultPermission", grantedByUserId, input)
      grantingUserPermission == getUserPermissionForVault(input.vault_id, grantedByUserId)
  IN
  IF grantingUserPermission = ErrVaultNotFound THEN Rejected(call, ErrVaultNotFound)
  ELSE IF grantingUserPermission \notin {"admin", "owner"} THEN Rejected(call, ErrGrantInsufficient)
  ELSE IF input.user_id \notin DOMAIN users THEN Rejected(call, ErrTargetNotFound)
  ELSE IF ~users[input.user_id].is_active THEN Rejected(call, ErrTargetInactive)
  ELSE IF PermissionRows(input.vault_id, input.user_id) # {} THEN Rejected(call, ErrDuplicate)
  ELSE /\ serial.perms < MaxPermissions
       /\ LET id == serial.perms + 1 IN
            /\ perms' = Insert(perms, id, [vault_id |-> input.vault_id,
                                           user_id |-> input.user_id,
                                           permission |-> input.permission,
                                           granted_by |-> grantedByUserId])
            /\ serial' = [serial EXCEPT !.perms = id]
            /\ Returned(call, id)
       /\ UNCHANGED <<users, vaults, categories, items>>

updateVaultPermission_noSelfGuard(input, userId) ==
  LET call == Call("updateVaultPermission", userId, input) IN
  IF input.id \notin DOMAIN perms THEN Rejected(call, ErrPermissionNotFound)
  ELSE LET existingPermission == perms[input.id]
           userPermission == getUserPermissionForVault(existingPermission.vault_id, userId)
       IN
       IF userPermission = ErrVaultNotFound THEN Rejected(call, ErrVaultNotFound)
       ELSE IF userPermission \notin {"admin", "owner"} THEN Rejected(call, ErrModifyInsufficient)
       ELSE /\ perms' = [perms EXCEPT ![input.id].permission = input.permission]
            /\ Returned(call, input.id)
            /\ UNCHANGED <<users, vaults, categories, items, serial>>

updateVaultPermission_levelKept(input, userId) ==
  LET call == Call("updateVaultPermission", userId, input) IN
  IF input.id \notin DOMAIN perms THEN Rejected(call, ErrPermissionNotFound)
  ELSE LET existingPermission == perms[input.id]
           userPermission == getUserPermissionForVault(existingPermission.vault_id, userId)
       IN
       IF userPermission = ErrVaultNotFound THEN Rejected(call, ErrVaultNotFound)
       ELSE IF userPermission \notin {"admin", "owner"} THEN Rejected(call, ErrModifyInsufficient)
       ELSE IF existingPermission.user_id = userId THEN Rejected(call, ErrSelfModification)
       ELSE /\ Returned(call, input.id)
            /\ UNCHANGED db

updateVaultPermission(input, userId) ==
  LET call == Call("updateVaultPermission", userId, input) IN
  IF input.id \notin DOMAIN perms THEN Rejected(call, ErrPermissionNotFound)
  ELSE LET existingPermission == perms[input.id]
           userPermission == getUserPermissionForVault(existingPermission.vault_id, userId)
       IN
       IF userPermission = ErrVaultNotFound THEN Rejected(call, ErrVaultNotFound)
       ELSE IF userPermission \notin {"admin", "owner"} THEN Rejected(call, ErrModifyInsufficient)
       ELSE IF existingPermission.user_id = userId THEN Rejected(call, ErrSelfModification)
       ELSE /\ perms' = [perms EXCEPT ![input.id].permission = input.permission]
            /\ Returned(call, input.id)
            /\ UNCHANGED <<users, vaults, categories, items, serial>>

\* The inner join with users drops a grant whose user row is missing.
getVaultPermissions(vaultId, userId) ==
  LET call == Call("getVaultPermissions", userId, vaultId)
      userPermission == getUserPermissionForVault(vaultId, userId)
  IN
  /\ IF userPermission = ErrVaultNotFound THEN Thrown(call, ErrVaultNotFound)
     ELSE IF userPermission \notin {"admin", "owner"} THEN Thrown(call, ErrViewInsufficient)
     ELSE Returned(call, {p \in DOMAIN perms :
                          perms[p].vault_id = vaultId /\ perms[p].user_id \in DOMAIN users})
  /\ UNCHANGED db

revokeVaultPermission_noOwnerGuard(permissionId, userId) ==
  LET call == Call("revokeVaultPermission", userId, permissionId) IN
  IF permissionId \notin DOMAIN perms THEN Rejected(call, ErrPermissionNotFound)
  ELSE LET permission == perms[permissionId]
           userPermission == getUserPermissionForVault(permission.vault_id, userId)
       IN
       IF userPermission = ErrVaultNotFound THEN Rejected(call, ErrVaultNotFound)
       ELSE IF userPermission \notin {"admin", "owner"} THEN Rejected(call, ErrRevokeInsufficient)
       ELSE /\ perms' = Remove(perms, {permissionId})
            /\ Returned(call, permissionId)
            /\ UNCHANGED <<users, vaults, categories, items, serial>>

revokeVaultPermission(permissionId, userId) ==
  LET call == Call("revokeVaultPermission", userId, permissionId) IN
  IF permissionId \notin DOMAIN perms THEN Rejected(call, ErrPermissionNotFound)
  ELSE LET permission == perms[permissionId]
           userPermission == getUserPermissionForVault(permission.vault_id, userId)
       IN
       IF userPermission = ErrVaultNotFound THEN Rejected(call, ErrVaultNotFound)
       ELSE IF userPermission \notin {"admin", "owner"} THEN Rejected(call, ErrRevokeInsufficient)
       ELSE IF vaults[permission.vault_id].owner_id = permission.user_id
         THEN Rejected(call, ErrRevokeOwner)
       ELSE /\ perms' = Remove(perms, {permissionId})
            /\ Returned(call, permissionId)
            /\ UNCHANGED <<users, vaults, categories, items, serial>>

\* Owned vaults tagged 'owner', then one entry per grant row of the user whose
\* vault exists (inner join), tagged with the row's level; no de-duplication.
getUserVaults(userId) ==
  /\ Returned(Call("getUserVaults", userId, NULL),
       [owned |-> {v \in DOMAIN vaults : vaults[v].owner_id = userId},
        granted |-> {p \in DOMAIN perms :
                       perms[p].user_id = userId /\ perms[p].vault_id \in DOMAIN vaults}])
  /\ UNCHANGED db

\* ------------------------------------------------------------------ auth.ts
\* A token is header.payload.signature; the payload holds userId, email, iat
\* and exp = iat + 24 h (TokenLife ticks of the clock here), the signature is
\* the hash of header, payload and JWT_SECRET.  A token is the record of its
\* userId and iat and of whether its signature is the one createToken makes.
TokenLife == 1
Token == [userId : 1 .. MaxUsers, iat : 0 .. MaxClock, signed : BOOLEAN]

\* Returns the payload's userId, or NoUser for null.
verifyToken(token) ==
  IF ~token.signed THEN NoUser
  ELSE IF token.iat + TokenLife < auth.now THEN NoUser
  ELSE token.userId

hashPassword(password, salt) == [hash |-> Pbkdf2(password, salt), salt |-> salt]

\* timingSafeEqual throws a RangeError when its buffers differ in length.
\* TRUE, FALSE or the error's message.
verifyPassword(password, hash, salt) ==
  LET expectedHash == Pbkdf2(password, salt) IN
  IF expectedHash.bytes # hash.bytes THEN ErrByteLength
  ELSE IF expectedHash = hash THEN "true" ELSE "false"

createToken(userId) == [userId |-> userId, iat |-> auth.now, signed |-> TRUE]

\* Returns the session's token.  The catch block logs and rethrows.
login(input) ==
  LET call == Call("login", NoUser, input) IN
  /\ IF input.email \notin DOMAIN users THEN Thrown(call, ErrInvalidLogin)
     ELSE LET user == users[input.email]
              storedHash == user.password_hash.hash
              storedSalt == user.password_hash.salt
              isPasswordValid ==
                IF storedSalt # NoSalt
                  THEN verifyPassword(input.password, storedHash, storedSalt)
                ELSE IF Sha256(<<input.password>>) = storedHash THEN "true" ELSE "false"
          IN
          IF ~user.is_active THEN Thrown(call, ErrDisabled)
          ELSE IF isPasswordValid = ErrByteLength THEN Thrown(call, ErrByteLength)
          ELSE IF isPasswordValid = "false" THEN Thrown(call, ErrInvalidLogin)
          ELSE Returned(call, createToken(input.email))
  /\ UNCHANGED <<db, auth>>

\* auth.test.ts: the rows the tests of login insert themselves, with the
\* digest hashPassword makes and with the unsalted sha256 login falls back to.
createTestUser(password) ==
  /\ serial.users < MaxUsers
  /\ \E salt \in Salts :
       LET id == serial.users + 1 IN
       /\ users' = Insert(users, id, [is_active |-> TRUE,
                                      password_hash |-> hashPassword(password, salt)])
       /\ serial' = [serial EXCEPT !.users = id]
       /\ Returned(Call("createTestUser", NoUser, [password |-> password]), id)
  /\ UNCHANGED <<vaults, categories, items, perms>>

createTestUserWithSimpleHash(password) ==
  /\ serial.users < MaxUsers
  /\ LET id == serial.users + 1 IN
       /\ users' = Insert(users, id,
                          [is_active |-> TRUE,
                           password_hash |-> [hash |-> Sha256(<<password>>), salt |-> NoSalt]])
       /\ serial' = [serial EXCEPT !.users = id]
       /\ Returned(Call("createTestUserWithSimpleHash", NoUser, [password |-> password]), id)
  /\ UNCHANGED <<vaults, categories, items, perms>>

logout_userWide(token) ==
  /\ Cardinality(auth.blacklist \cup {token}) <= MaxLogouts
  /\ auth' = [auth EXCEPT !.blacklist = @ \cup {t \in Token : t.userId = token.userId}]
  /\ Returned(Call("logout", NoUser, token), TRUE)
  /\ UNCHANGED db

logout(token) ==
  /\ Cardinality(auth.blacklist \cup {token}) <= MaxLogouts
  /\ auth' = [auth EXCEPT !.blacklist = @ \cup {token}]
  /\ Returned(Call("logout", NoUser, token), TRUE)
  /\ UNCHANGED db

validateSession_inactiveAccepted(token) ==
  LET call == Call("validateSession", NoUser, token)
      decoded == verifyToken(token)
  IN
  /\ IF token \in auth.blacklist THEN Returned(call, NoUser)
     ELSE IF decoded = NoUser THEN Returned(call, NoUser)
     ELSE IF decoded \notin DOMAIN users THEN Returned(call, NoUser)
     ELSE Returned(call, decoded)
  /\ UNCHANGED <<db, auth>>

\* Returns the user's id, or NoUser for null.
validateSession(token) ==
  LET call == Call("validateSession", NoUser, token)
      decoded == verifyToken(token)
  IN
  /\ IF token \in auth.blacklist THEN Returned(call, NoUser)
     ELSE IF decoded = NoUser THEN Returned(call, NoUser)
     ELSE IF decoded \notin DOMAIN users THEN Returned(call, NoUser)
     ELSE IF ~users[decoded].is_active THEN Returned(call, NoUser)
     ELSE Returned(call, decoded)
  /\ UNCHANGED <<db, auth>>

\* ------------------------------------------------------ password-generator.ts
\* Of each character set one or two characters are kept, of the ambiguous
\* characters those that are in a set.
lowercase == {"a"}
uppercase == {"A", "O"}
numbers == {"2"}
symbols == {"#", "|"}
ambiguousChars == {"O", "|"}
Alphabet == lowercase \cup uppercase \cup numbers \cup symbols
CharacterSets == {"lowercase", "uppercase", "numbers", "symbols"}
Charset(k) ==
  CASE k = "lowercase" -> lowercase [] k = "uppercase" -> uppercase
    [] k = "numbers" -> numbers [] k = "symbols" -> symbols

\* generatePasswordInputSchema: length is z.number().min(4).max(128), a number
\* that need not be whole.  A length is counted in halves.
Halves == 2
MinLength == 4
Included(input, k) ==
  CASE k = "lowercase" -> input.include_lowercase [] k = "uppercase" -> input.include_uppercase
    [] k = "numbers" -> input.include_numbers [] k = "symbols" -> input.include_symbols
Selected(input) == {k \in CharacterSets : Included(input, k)}
\* chars of the set k: the set, without the ambiguous characters when asked.
Chars(input, k) == IF input.exclude_ambiguous THEN Charset(k) \ ambiguousChars ELSE Charset(k)
CharPool(input) == UNION {Chars(input, k) : k \in Selected(input)}

\* A password is held up to the order of its characters, which the closing
\* shuffle makes arbitrary: character -> how often it occurs.
RECURSIVE Draws(_, _)
Draws(chars, n) ==
  IF chars = {} THEN (IF n = 0 THEN {<<>>} ELSE {})
  ELSE LET c == CHOOSE x \in chars : TRUE IN
       UNION {{(c :> k) @@ b : b \in Draws(chars \ {c}, n - k)} : k \in 0 .. n}
RECURSIVE Length(_, _)
Length(password, chars) ==
  IF chars = {} THEN 0
  ELSE LET c == CHOOSE x \in chars : TRUE IN password[c] + Length(password, chars \ {c})
Tested(password, chars) == \E c \in chars : password[c] > 0

\* for (let i = requiredChars.length; i < length; i++): the number of rounds.
Rounds(required, length) ==
  Cardinality({i \in required .. MaxLength : Halves * i < length})

\* requiredChars (one getRandomChar per selected set) followed by one
\* getRandomChar(charPool) per round.
generateSecurePassword(length, charPool, requiredChars) ==
  {[c \in Alphabet |->
      Cardinality({k \in DOMAIN requiredChars : requiredChars[k] = c})
        + (IF c \in charPool THEN fill[c] ELSE 0)] :
     fill \in Draws(charPool, Rounds(Cardinality(DOMAIN requiredChars), length))}

\* Math.min(100, Math.round(score)), the score counted in tenths.
calculateStrengthScore(password, options) ==
  LET lengthScore == IF 25 * Length(password, Alphabet) < 400
                       THEN 25 * Length(password, Alphabet) ELSE 400
      charSets == Cardinality(
        {k \in CharacterSets :
           /\ Included(options, k)
           /\ IF k = "symbols"
                THEN Tested(password, Alphabet \ (lowercase \cup uppercase \cup numbers))
                ELSE Tested(password, Charset(k))})
      score == lengthScore + 150 * charSets + (IF options.exclude_ambiguous THEN 50 ELSE 0)
      rounded == (score + 5) \div 10
  IN IF rounded < 100 THEN rounded ELSE 100

generatePassword_noRequired(input) ==
  LET call == Call("generatePassword", NoUser, input) IN
  /\ IF CharPool(input) = {} THEN Thrown(call, ErrNoCharacterSets)
     ELSE \E password \in generateSecurePassword(input.length, CharPool(input), <<>>) :
            Returned(call, [password |-> password,
                            strength |-> calculateStrengthScore(password, input)])
  /\ UNCHANGED db

generatePassword(input) ==
  LET call == Call("generatePassword", NoUser, input) IN
  /\ IF CharPool(input) = {} THEN Thrown(call, ErrNoCharacterSets)
     ELSE \E requiredChars \in [{k \in Selected(input) : Chars(input, k) # {}} -> Alphabet] :
            /\ \A k \in DOMAIN requiredChars : requiredChars[k] \in Chars(input, k)
            /\ \E password \in generateSecurePassword(input.length, CharPool(input), requiredChars) :
                 Returned(call, [password |-> password,
                                 strength |-> calculateStrengthScore(password, input)])
  /\ UNCHANGED db

\* ------------------------------------------- credential-items.ts: the cipher
\* Bytes are ByteBits wide and a cipher block is BlockSize bytes (aes-256-cbc:
\* 8 and 16), so that every text, IV and block can be enumerated.
ByteBits == 3
BlockSize == 2
ByteMod == 2 ^ ByteBits
Byte == 0 .. (ByteMod - 1)
\* The static deployment-wide key.
ENCRYPTION_KEY == 5

RECURSIVE Xor(_, _)
Xor(a, b) ==
  IF a = 0 THEN b
  ELSE IF b = 0 THEN a
  ELSE (((a % 2) + (b % 2)) % 2) + (2 * Xor(a \div 2, b \div 2))

RECURSIVE Concat(_)
Concat(seqs) == IF seqs = <<>> THEN <<>> ELSE Head(seqs) \o Concat(Tail(seqs))

\* 'utf8': a code point below AsciiLimit is one byte (0x..), the others are a
\* lead byte (11x..) and a continuation byte (10x..).
AsciiLimit == ByteMod \div 2
Payload == ByteMod \div 4
CodePoint == 0 .. (AsciiLimit + Payload * Payload - 1)
ReplacementChar == AsciiLimit + Payload * Payload - 1
\* A string is a sequence of UTF-16 code units: the code points, and a
\* surrogate unit that stands alone (a low surrogate with no high one before it).
LoneSurrogate == AsciiLimit + Payload * Payload
CodeUnit == CodePoint \cup {LoneSurrogate}
WellFormed(text) == \A i \in 1 .. Len(text) : text[i] # LoneSurrogate

Utf8Bytes(cp) ==
  IF cp < AsciiLimit THEN <<cp>>
  ELSE << AsciiLimit + Payload + ((cp - AsciiLimit) \div Payload),
          AsciiLimit + ((cp - AsciiLimit) % Payload) >>

\* cipher.update(text, 'utf8', ..): an unpaired surrogate is written as U+FFFD.
utf8Encode(text) ==
  Concat([i \in 1 .. Len(text) |->
    Utf8Bytes(IF text[i] = LoneSurrogate THEN ReplacementChar ELSE text[i])])

RECURSIVE utf8Decode(_)
utf8Decode(bytes) ==
  IF bytes = <<>> THEN <<>>
  ELSE IF Head(bytes) < AsciiLimit THEN <<Head(bytes)>> \o utf8Decode(Tail(bytes))
  ELSE IF /\ Head(bytes) >= AsciiLimit + Payload
          /\ Len(bytes) >= 2
          /\ bytes[2] >= AsciiLimit
          /\ bytes[2] < AsciiLimit + Payload
    THEN << AsciiLimit + (Head(bytes) - AsciiLimit - Payload) * Payload
              + (bytes[2] - AsciiLimit) >> \o utf8Decode(Tail(Tail(bytes)))
  ELSE <<ReplacementChar>> \o utf8Decode(Tail(bytes))

\* 'hex': two lower-case digits per byte.
HexDigits == <<"0", "1", "2", "3", "4", "5", "6", "7", "8", "9", "a", "b", "c", "d", "e", "f">>
HexValue(ch) == CHOOSE v \in 0 .. 15 : HexDigits[v + 1] = ch
IsHexDigit(ch) == \E v \in 0 .. 15 : HexDigits[v + 1] = ch

toHex(bytes) ==
  Concat([i \in 1 .. Len(bytes) |->
    << HexDigits[(bytes[i] \div 16) + 1], HexDigits[(bytes[i] % 16) + 1] >>])

\* Buffer.from(str, 'hex'): decodes digit pairs up to the first pair that is
\* not hexadecimal.
RECURSIVE fromHex(_)
fromHex(str) ==
  IF Len(str) < 2 \/ ~IsHexDigit(str[1]) \/ ~IsHexDigit(str[2]) THEN <<>>
  ELSE <<16 * HexValue(str[1]) + HexValue(str[2])>> \o fromHex(Tail(Tail(str)))

\* The block cipher under ENCRYPTION_KEY: a permutation of the blocks.
Sbox(x) == (3 * x + ENCRYPTION_KEY) % ByteMod
SboxInv(y) == CHOOSE x \in Byte : Sbox(x) = y
EncryptBlock(b) == [i \in 1 .. BlockSize |-> Sbox(b[(i % BlockSize) + 1])]
DecryptBlock(c) == [i \in 1 .. BlockSize |-> SboxInv(c[((i + BlockSize - 2) % BlockSize) + 1])]
XorBlock(a, b) == [i \in 1 .. BlockSize |-> Xor(a[i], b[i])]

\* cipher.final(): PKCS#7 padding, always at least one byte.
Pad(bytes) ==
  LET n == BlockSize - (Len(bytes) % BlockSize) IN bytes \o [i \in 1 .. n |-> n]
PadValid(bytes) ==
  /\ Len(bytes) > 0
  /\ bytes[Len(bytes)] \in 1 .. BlockSize
  /\ \A i \in 1 .. bytes[Len(bytes)] : bytes[Len(bytes) + 1 - i] = bytes[Len(bytes)]
Unpad(bytes) == SubSeq(bytes, 1, Len(bytes) - bytes[Len(bytes)])

RECURSIVE CbcEncrypt(_, _)
CbcEncrypt(bytes, prev) ==
  IF bytes = <<>> THEN <<>>
  ELSE LET c == EncryptBlock(XorBlock(SubSeq(bytes, 1, BlockSize), prev))
       IN c \o CbcEncrypt(SubSeq(bytes, BlockSize + 1, Len(bytes)), c)

RECURSIVE CbcDecrypt(_, _)
CbcDecrypt(bytes, prev) ==
  IF bytes = <<>> THEN <<>>
  ELSE LET c == SubSeq(bytes, 1, BlockSize)
       IN XorBlock(DecryptBlock(c), prev)
            \o CbcDecrypt(SubSeq(bytes, BlockSize + 1, Len(bytes)), c)

\* encryptedText.split(':')
Colons(str) == {i \in 1 .. Len(str) : str[i] = ":"}
SplitFirst(str) ==
  IF Colons(str) = {} THEN str ELSE SubSeq(str, 1, First(Colons(str)) - 1)
SplitSecond(str) ==
  LET rest == SubSeq(str, First(Colons(str)) + 1, Len(str)) IN SplitFirst(rest)

\* What decrypt throws is DecryptError.
DecryptError == <<-1>>

\* encrypt(text) with iv the value randomBytes returned.
encrypt_ivOmitted(text, iv) ==
  toHex(CbcEncrypt(Pad(utf8Encode(text)), iv))

encrypt(text, iv) ==
  toHex(iv) \o <<":">> \o toHex(CbcEncrypt(Pad(utf8Encode(text)), iv))

decrypt(encryptedText) ==
  IF Colons(encryptedText) = {} THEN DecryptError
  ELSE LET iv == fromHex(SplitFirst(encryptedText))
           encrypted == fromHex(SplitSecond(encryptedText))
       IN
       IF Len(iv) # BlockSize THEN DecryptError
       ELSE IF Len(encrypted) = 0 \/ (Len(encrypted) % BlockSize) # 0 THEN DecryptError
       ELSE LET padded == CbcDecrypt(encrypted, iv) IN
            IF ~PadValid(padded) THEN DecryptError
            ELSE utf8Decode(Unpad(padded))

\* ------------------------------------------------- categories.ts: categories
checkVaultPermissionCategories_readWrites(vaultId, userId, requiredPermission) ==
  IF vaultId \notin DOMAIN vaults THEN FALSE
  ELSE IF vaults[vaultId].owner_id = userId THEN TRUE
  ELSE PermissionRows(vaultId, userId) # {}

checkVaultPermissionCategories(vaultId, userId, requiredPermission) ==
  IF vaultId \notin DOMAIN vaults THEN FALSE
  ELSE IF vaults[vaultId].owner_id = userId THEN TRUE
  ELSE IF PermissionRows(vaultId, userId) = {} THEN FALSE
  ELSE LET userPermission == perms[First(PermissionRows(vaultId, userId))].permission IN
       CASE requiredPermission = "read" -> userPermission \in {"read", "write", "admin"}
         [] requiredPermission = "write" -> userPermission \in {"write", "admin"}
         [] requiredPermission = "admin" -> userPermission = "admin"
         [] OTHER -> FALSE

createCategory(input, userId) ==
  LET call == Call("createCategory", userId, input) IN
  IF ~checkVaultPermissionCategories(input.vault_id, userId, "write")
    THEN Rejected(call, ErrCreateCategoryInsufficient)
  ELSE /\ serial.categories - Len(DefaultCategoryNames) * serial.vaults < MaxExtraCategories
       /\ LET id == serial.categories + 1 IN
            /\ categories' = Insert(categories, id,
                                    [name |-> input.name, vault_id |-> input.vault_id])
            /\ serial' = [serial EXCEPT !.categories = id]
            /\ Returned(call, id)
       /\ UNCHANGED <<users, vaults, items, perms>>

updateCategory(input, userId) ==
  LET call == Call("updateCategory", userId, input) IN
  IF input.id \notin DOMAIN categories THEN Rejected(call, ErrCategoryNotFound)
  ELSE IF ~checkVaultPermissionCategories(categories[input.id].vault_id, userId, "write")
    THEN Rejected(call, ErrUpdateCategoryInsufficient)
  ELSE /\ categories' = [categories EXCEPT ![input.id].name =
                           IF "name" \in input.present THEN input.name ELSE @]
       /\ Returned(call, input.id)
       /\ UNCHANGED <<users, vaults, items, perms, serial>>

getCategoriesByVault(vaultId, userId) ==
  LET call == Call("getCategoriesByVault", userId, vaultId) IN
  /\ IF ~checkVaultPermissionCategories(vaultId, userId, "read")
       THEN Thrown(call, ErrVaultAccessInsufficient)
       ELSE Returned(call, {c \in DOMAIN categories : categories[c].vault_id = vaultId})
  /\ UNCHANGED db

getCategoryById(id, userId) ==
  LET call == Call("getCategoryById", userId, id) IN
  /\ IF id \notin DOMAIN categories THEN Returned(call, NULL)
     ELSE IF ~checkVaultPermissionCategories(categories[id].vault_id, userId, "read")
       THEN Thrown(call, ErrCategoryAccessInsufficient)
     ELSE Returned(call, id)
  /\ UNCHANGED db

deleteCategory_cascade(id, userId) ==
  LET call == Call("deleteCategory", userId, id) IN
  IF id \notin DOMAIN categories THEN Rejected(call, ErrCategoryNotFound)
  ELSE IF ~checkVaultPermissionCategories(categories[id].vault_id, userId, "write")
    THEN Rejected(call, ErrDeleteCategoryInsufficient)
  ELSE /\ items' = Remove(items, {i \in DOMAIN items : items[i].category_id = id})
       /\ categories' = Remove(categories, {id})
       /\ Returned(call, id)
       /\ UNCHANGED <<users, vaults, perms, serial>>

deleteCategory(id, userId) ==
  LET call == Call("deleteCategory", userId, id) IN
  IF id \notin DOMAIN categories THEN Rejected(call, ErrCategoryNotFound)
  ELSE IF ~checkVaultPermissionCategories(categories[id].vault_id, userId, "write")
    THEN Rejected(call, ErrDeleteCategoryInsufficient)
  ELSE /\ items' = [i \in DOMAIN items |->
                      IF items[i].category_id = id
                        THEN [items[i] EXCEPT !.category_id = NoCategory]
                        ELSE items[i]]
       /\ categories' = Remove(categories, {id})
       /\ Returned(call, id)
       /\ UNCHANGED <<users, vaults, perms, serial>>

\* ----------------------------------------------------- categories.ts: vaults
createVault_ownerNotGranted(input, userId) ==
  /\ serial.vaults < MaxVaults
  /\ serial.perms < MaxPermissions
  /\ LET id == serial.vaults + 1
         n == Len(DefaultCategoryNames)
     IN
     /\ vaults' = Insert(vaults, id, [owner_id |-> userId, is_shared |-> input.is_shared])
     /\ categories' = categories @@
          [c \in (serial.categories + 1) .. (serial.categories + n) |->
             [name |-> DefaultCategoryNames[c - serial.categories], vault_id |-> id]]
     /\ serial' = [serial EXCEPT !.vaults = id, !.categories = @ + n]
     /\ Returned(Call("createVault", userId, input), id)
  /\ UNCHANGED <<users, items, perms>>

createVault(input, userId) ==
  /\ serial.vaults < MaxVaults
  /\ serial.perms < MaxPermissions
  /\ LET id == serial.vaults + 1
         n == Len(DefaultCategoryNames)
     IN
     /\ vaults' = Insert(vaults, id, [owner_id |-> userId, is_shared |-> input.is_shared])
     /\ perms' = Insert(perms, serial.perms + 1,
                        [vault_id |-> id, user_id |-> userId,
                         permission |-> "admin", granted_by |-> userId])
     /\ categories' = categories @@
          [c \in (serial.categories + 1) .. (serial.categories + n) |->
             [name |-> DefaultCategoryNames[c - serial.categories], vault_id |-> id]]
     /\ serial' = [serial EXCEPT !.vaults = id,
                                 !.perms = @ + 1,
                                 !.categories = @ + n]
     /\ Returned(Call("createVault", userId, input), id)
  /\ UNCHANGED <<users, items>>

\* updateVault's own check on a vault that exists: a grant row of the caller
\* at 'admin', or else the caller is the owner.
hasPermission(vaultId, userId) ==
  {p \in PermissionRows(vaultId, userId) : perms[p].permission = "admin"} # {}
ownerCheck(vaultId, userId) == vaults[vaultId].owner_id = userId

updateVault(input, userId) ==
  LET call == Call("updateVault", userId, input) IN
  IF input.id \notin DOMAIN vaults THEN Rejected(call, ErrVaultNotFound)
  ELSE IF ~hasPermission(input.id, userId) /\ ~ownerCheck(input.id, userId)
    THEN Rejected(call, ErrUpdateVaultInsufficient)
  ELSE /\ vaults' = [vaults EXCEPT ![input.id].is_shared =
                       IF "is_shared" \in input.present THEN input.is_shared ELSE @]
       /\ Returned(call, input.id)
       /\ UNCHANGED <<users, categories, items, perms, serial>>

\* The rows of vaults LEFT JOIN vault_user_permissions ON vault_id: for each
\* vault one row per grant row of the vault, or one row without a grant
\* (grant = 0) when it has none.  Rows are taken vault by vault, grant by grant.
RECURSIVE Ordered(_)
Ordered(ids) ==
  IF ids = {} THEN <<>> ELSE <<First(ids)>> \o Ordered(ids \ {First(ids)})

JoinedRows(v) ==
  LET grants == {p \in DOMAIN perms : perms[p].vault_id = v} IN
  IF grants = {} THEN <<[vault |-> v, grant |-> 0]>>
  ELSE [k \in 1 .. Cardinality(grants) |-> [vault |-> v, grant |-> Ordered(grants)[k]]]

VaultsLeftJoinPermissions == Concat([k \in 1 .. Cardinality(DOMAIN vaults) |->
                                       JoinedRows(Ordered(DOMAIN vaults)[k])])

\* where owner_id = userId or vault_user_permissions.user_id = userId
OwnedOrGranted(row, userId) ==
  \/ vaults[row.vault].owner_id = userId
  \/ row.grant # 0 /\ perms[row.grant].user_id = userId

RECURSIVE Where(_, _)
Where(rows, userId) ==
  IF rows = <<>> THEN <<>>
  ELSE (IF OwnedOrGranted(Head(rows), userId) THEN <<Head(rows).vault>> ELSE <<>>)
         \o Where(Tail(rows), userId)

\* results.reduce: a vault is pushed unless acc already holds its id.
RECURSIVE UniqueVaults(_, _)
UniqueVaults(results, acc) ==
  IF results = <<>> THEN acc
  ELSE UniqueVaults(Tail(results),
                    IF \E k \in 1 .. Len(acc) : acc[k] = Head(results)
                      THEN acc ELSE Append(acc, Head(results)))

getVaultsByUser_duplicatesKept(userId) ==
  /\ Returned(Call("getVaultsByUser", userId, NULL), Where(VaultsLeftJoinPermissions, userId))
  /\ UNCHANGED db

getVaultsByUser(userId) ==
  /\ Returned(Call("getVaultsByUser", userId, NULL),
              UniqueVaults(Where(VaultsLeftJoinPermissions, userId), <<>>))
  /\ UNCHANGED db

getVaultById(id, userId) ==
  LET call == Call("getVaultById", userId, id)
      result == IF id \in DOMAIN vaults THEN Where(JoinedRows(id), userId) ELSE <<>>
  IN
  /\ IF result = <<>> THEN Returned(call, NULL) ELSE Returned(call, result[1])
  /\ UNCHANGED db

deleteVault_keepGrants(id, userId) ==
  LET call == Call("deleteVault", userId, id) IN
  IF ~(id \in DOMAIN vaults /\ vaults[id].owner_id = userId)
    THEN Rejected(call, ErrDeleteVault)
  ELSE /\ items' = Remove(items, {i \in DOMAIN items : items[i].vault_id = id})
       /\ categories' = Remove(categories, {c \in DOMAIN categories : categories[c].vault_id = id})
       /\ vaults' = Remove(vaults, {id})
       /\ Returned(call, id)
       /\ UNCHANGED <<users, perms, serial>>

deleteVault_adminDeletes(id, userId) ==
  LET call == Call("deleteVault", userId, id) IN
  IF id \notin DOMAIN vaults THEN Rejected(call, ErrVaultNotFound)
  ELSE IF getUserPermissionForVault(id, userId) \notin {"admin", "owner"}
    THEN Rejected(call, ErrDeleteVault)
  ELSE /\ items' = Remove(items, {i \in DOMAIN items : items[i].vault_id = id})
       /\ categories' = Remove(categories, {c \in DOMAIN categories : categories[c].vault_id = id})
       /\ perms' = Remove(perms, {p \in DOMAIN perms : perms[p].vault_id = id})
       /\ vaults' = Remove(vaults, {id})
       /\ Returned(call, id)
       /\ UNCHANGED <<users, serial>>

deleteVault(id, userId) ==
  LET call == Call("deleteVault", userId, id) IN
  IF ~(id \in DOMAIN vaults /\ vaults[id].owner_id = userId)
    THEN Rejected(call, ErrDeleteVault)
  ELSE /\ items' = Remove(items, {i \in DOMAIN items : items[i].vault_id = id})
       /\ categories' = Remove(categories, {c \in DOMAIN categories : categories[c].vault_id = id})
       /\ perms' = Remove(perms, {p \in DOMAIN perms : perms[p].vault_id = id})
       /\ vaults' = Remove(vaults, {id})
       /\ Returned(call, id)
       /\ UNCHANGED <<users, serial>>

\* ------------------------------------------ credential-items.ts: the handlers
checkVaultPermission_missingAllowed(vaultId, userId, requiredPermission) ==
  IF vaultId \notin DOMAIN vaults THEN TRUE
  ELSE IF vaults[vaultId].owner_id = userId THEN TRUE
  ELSE IF PermissionRows(vaultId, userId) = {} THEN FALSE
  ELSE LET userPermission == perms[First(PermissionRows(vaultId, userId))].permission IN
       IF requiredPermission = "read" THEN userPermission \in {"read", "write", "admin"}
       ELSE IF requiredPermission = "write" THEN userPermission \in {"write", "admin"}
       ELSE userPermission = "admin"

checkVaultPermission_readWrites(vaultId, userId, requiredPermission) ==
  IF vaultId \notin DOMAIN vaults THEN FALSE
  ELSE IF vaults[vaultId].owner_id = userId THEN TRUE
  ELSE PermissionRows(vaultId, userId) # {}

checkVaultPermission(vaultId, userId, requiredPermission) ==
  IF vaultId \notin DOMAIN vaults THEN FALSE
  ELSE IF vaults[vaultId].owner_id = userId THEN TRUE
  ELSE IF PermissionRows(vaultId, userId) = {} THEN FALSE
  ELSE LET userPermission == perms[First(PermissionRows(vaultId, userId))].permission IN
       IF requiredPermission = "read" THEN userPermission \in {"read", "write", "admin"}
       ELSE IF requiredPermission = "write" THEN userPermission \in {"write", "admin"}
       ELSE IF requiredPermission = "admin" THEN userPermission = "admin"
       ELSE FALSE

\* value ? encrypt(value) : null, and stored ? decrypt(stored) : null
EncryptField(value, iv) == IF value # NoText THEN encrypt(value, iv) ELSE NoText
DecryptField(stored) == IF stored # NoText THEN decrypt(stored) ELSE NoText

\* A sensitive field as a client sends it: null, or a string (the empty one
\* included).  An input record holds the string in the field (NoText for null)
\* and the names of the fields sent as null in input.null; the handlers test
\* the value for truthiness only, which null and '' both fail.
Nothing == [null |-> TRUE, text |-> NoText]
Plain(text) == [null |-> FALSE, text |-> text]
SubmittedField(input) ==
  IF "password" \in input.null THEN Nothing ELSE Plain(input.password)

\* The item as the handlers return it: the row with the sensitive column decrypted.
Decrypted(row) == [row EXCEPT !.password_encrypted = DecryptField(row.password_encrypted)]
DecryptedRows(rows, ids) == [i \in ids |-> Decrypted(rows[i])]
DecryptFails(rows, ids) ==
  \E i \in ids : DecryptField(rows[i].password_encrypted) = DecryptError

createCredentialItem(input, userId, iv) ==
  LET call == Call("createCredentialItem", userId, input) IN
  IF ~checkVaultPermission(input.vault_id, userId, "write")
    THEN Rejected(call, ErrItemInsufficient)
  ELSE /\ serial.items < MaxItems
       /\ LET id == serial.items + 1
              item == [title |-> input.title,
                       type |-> input.type,
                       vault_id |-> input.vault_id,
                       category_id |-> input.category_id,
                       created_by |-> userId,
                       password_encrypted |-> EncryptField(input.password, iv)]
          IN
          /\ items' = Insert(items, id, item)
          /\ serial' = [serial EXCEPT !.items = id]
          /\ IF DecryptField(item.password_encrypted) = DecryptError
               THEN Thrown(call, ErrDecrypt)
               ELSE Returned(call, [id |-> id, item |-> Decrypted(item)])
       /\ UNCHANGED <<users, vaults, categories, perms>>

updateCredentialItem_absentCleared(input, userId, iv) ==
  LET call == Call("updateCredentialItem", userId, input) IN
  IF input.id \notin DOMAIN items THEN Rejected(call, ErrItemNotFound)
  ELSE IF ~checkVaultPermission(items[input.id].vault_id, userId, "write")
    THEN Rejected(call, ErrItemInsufficient)
  ELSE LET existingItem == items[input.id]
           item == [existingItem EXCEPT
                      !.title = IF "title" \in input.present THEN input.title ELSE @,
                      !.category_id =
                         IF "category_id" \in input.present THEN input.category_id
                         ELSE NoCategory,
                      !.password_encrypted =
                         IF "password" \in input.present
                           THEN EncryptField(input.password, iv) ELSE @]
       IN
       /\ items' = [items EXCEPT ![input.id] = item]
       /\ IF DecryptField(item.password_encrypted) = DecryptError
            THEN Thrown(call, ErrDecrypt)
            ELSE Returned(call, [id |-> input.id, item |-> Decrypted(item)])
       /\ UNCHANGED <<users, vaults, categories, perms, serial>>

updateCredentialItem_passwordKept(input, userId, iv) ==
  LET call == Call("updateCredentialItem", userId, input) IN
  IF input.id \notin DOMAIN items THEN Rejected(call, ErrItemNotFound)
  ELSE IF ~checkVaultPermission(items[input.id].vault_id, userId, "write")
    THEN Rejected(call, ErrItemInsufficient)
  ELSE LET existingItem == items[input.id]
           item == [existingItem EXCEPT
                      !.title = IF "title" \in input.present THEN input.title ELSE @,
                      !.category_id =
                         IF "category_id" \in input.present THEN input.category_id ELSE @]
       IN
       /\ items' = [items EXCEPT ![input.id] = item]
       /\ IF DecryptField(item.password_encrypted) = DecryptError
            THEN Thrown(call, ErrDecrypt)
            ELSE Returned(call, [id |-> input.id, item |-> Decrypted(item)])
       /\ UNCHANGED <<users, vaults, categories, perms, serial>>

updateCredentialItem(input, userId, iv) ==
  LET call == Call("updateCredentialItem", userId, input) IN
  IF input.id \notin DOMAIN items THEN Rejected(call, ErrItemNotFound)
  ELSE IF ~checkVaultPermission(items[input.id].vault_id, userId, "write")
    THEN Rejected(call, ErrItemInsufficient)
  ELSE LET existingItem == items[input.id]
           item == [existingItem EXCEPT
                      !.title = IF "title" \in input.present THEN input.title ELSE @,
                      !.category_id =
                         IF "category_id" \in input.present THEN input.category_id ELSE @,
                      !.password_encrypted =
                         IF "password" \in input.present
                           THEN EncryptField(input.password, iv) ELSE @]
       IN
       /\ items' = [items EXCEPT ![input.id] = item]
       /\ IF DecryptField(item.password_encrypted) = DecryptError
            THEN Thrown(call, ErrDecrypt)
            ELSE Returned(call, [id |-> input.id, item |-> Decrypted(item)])
       /\ UNCHANGED <<users, vaults, categories, perms, serial>>

getItemsByVault(vaultId, userId) ==
  LET call == Call("getItemsByVault", userId, vaultId)
      ids == {i \in DOMAIN items : items[i].vault_id = vaultId}
  IN
  /\ IF ~checkVaultPermission(vaultId, userId, "read") THEN Thrown(call, ErrItemInsufficient)
     ELSE IF DecryptFails(items, ids) THEN Thrown(call, ErrDecrypt)
     ELSE Returned(call, DecryptedRows(items, ids))
  /\ UNCHANGED db

getItemById(id, userId) ==
  LET call == Call("getItemById", userId, id) IN
  /\ IF id \notin DOMAIN items THEN Returned(call, NULL)
     ELSE IF ~checkVaultPermission(items[id].vault_id, userId, "read")
       THEN Thrown(call, ErrItemInsufficient)
     ELSE IF DecryptFails(items, {id}) THEN Thrown(call, ErrDecrypt)
     ELSE Returned(call, [id |-> id, item |-> Decrypted(items[id])])
  /\ UNCHANGED db

\* query.trim()
RECURSIVE TrimLeft(_)
TrimLeft(str) == IF str # <<>> /\ Head(str) = " " THEN TrimLeft(Tail(str)) ELSE str
RECURSIVE TrimRight(_)
TrimRight(str) ==
  IF str # <<>> /\ str[Len(str)] = " " THEN TrimRight(SubSeq(str, 1, Len(str) - 1)) ELSE str
Trim(str) == TrimRight(TrimLeft(str))

LowerCase(ch) == CASE ch = "A" -> "a" [] ch = "B" -> "b" [] OTHER -> ch

\* title ILIKE pattern: % matches any run of characters, _ any one character.
RECURSIVE ILike(_, _)
ILike(str, pattern) ==
  IF pattern = <<>> THEN str = <<>>
  ELSE IF Head(pattern) = "%"
    THEN ILike(str, Tail(pattern)) \/ (str # <<>> /\ ILike(Tail(str), pattern))
  ELSE /\ str # <<>>
       /\ (Head(pattern) = "_" \/ LowerCase(Head(pattern)) = LowerCase(Head(str)))
       /\ ILike(Tail(str), Tail(pattern))

\* The rows the conditions pushed for category_id, type and query let through.
OtherConditions(row, input) ==
  /\ "category_id" \in input.present => row.category_id = input.category_id
  /\ "type" \in input.present => row.type = input.type
  /\ ("query" \in input.present /\ Trim(input.query) # <<>>)
       => ILike(row.title, <<"%">> \o Trim(input.query) \o <<"%">>)

searchItems_allOwned(input, userId) ==
  LET call == Call("searchItems", userId, input)
      ownVaults == {v \in DOMAIN vaults : vaults[v].owner_id = userId}
      searched == IF "vault_id" \in input.present THEN {input.vault_id} ELSE ownVaults
      ids == {i \in DOMAIN items :
                items[i].vault_id \in searched /\ OtherConditions(items[i], input)}
  IN
  /\ IF "vault_id" \in input.present /\ ~checkVaultPermission(input.vault_id, userId, "read")
       THEN Thrown(call, ErrItemInsufficient)
     ELSE IF "vault_id" \notin input.present /\ ownVaults = {}
       THEN Returned(call, <<>>)
     ELSE IF DecryptFails(items, ids) THEN Thrown(call, ErrDecrypt)
     ELSE Returned(call, DecryptedRows(items, ids))
  /\ UNCHANGED db

\* Without vault_id the vault searched is vaultIds[0] of a select without
\* ORDER BY: whichever of the caller's vaults the store returns first.
searchItems(input, userId) ==
  LET call == Call("searchItems", userId, input)
      ownVaults == {v \in DOMAIN vaults : vaults[v].owner_id = userId}
      ids(vaultId) == {i \in DOMAIN items :
                         items[i].vault_id = vaultId /\ OtherConditions(items[i], input)}
  IN
  /\ IF "vault_id" \in input.present /\ ~checkVaultPermission(input.vault_id, userId, "read")
       THEN Thrown(call, ErrItemInsufficient)
     ELSE IF "vault_id" \notin input.present /\ ownVaults = {}
       THEN Returned(call, <<>>)
     ELSE \E vaultId \in (IF "vault_id" \in input.present THEN {input.vault_id} ELSE ownVaults) :
            IF DecryptFails(items, ids(vaultId)) THEN Thrown(call, ErrDecrypt)
            ELSE Returned(call, DecryptedRows(items, ids(vaultId)))
  /\ UNCHANGED db

\* The delete issued before the permission check.
deleteCredentialItem_deleteFirst(id, userId) ==
  LET call == Call("deleteCredentialItem", userId, id) IN
  IF id \notin DOMAIN items THEN Rejected(call, ErrItemNotFound)
  ELSE /\ items' = Remove(items, {id})
       /\ IF ~checkVaultPermission(items[id].vault_id, userId, "write")
            THEN Thrown(call, ErrItemInsufficient)
            ELSE Returned(call, id)
       /\ UNCHANGED <<users, vaults, categories, perms, serial>>

deleteCredentialItem(id, userId) ==
  LET call == Call("deleteCredentialItem", userId, id) IN
  IF id \notin DOMAIN items THEN Rejected(call, ErrItemNotFound)
  ELSE IF ~checkVaultPermission(items[id].vault_id, userId, "write")
    THEN Rejected(call, ErrItemInsufficient)
  ELSE /\ items' = Remove(items, {id})
       /\ Returned(call, id)
       /\ UNCHANGED <<users, vaults, categories, perms, serial>>

\* ------------------------------------------------ requests that run alone
\* Between two requests no call is outstanding.
Idle == [op |-> "idle", caller |-> NoUser, input |-> NULL, err |-> OK, ret |-> NULL]
Ready == last.op = "idle"

Procs == 1 .. MaxProcs
IdleTxn == [pc |-> "idle", op |-> "idle", caller |-> NoUser, id |-> 0, user |-> NoUser,
            level |-> NULL, err |-> OK]
NoAuth == [now |-> 0, blacklist |-> {}]
NoCipher == [text |-> NoText, ivs |-> <<>>, stored |-> <<>>, opened |-> <<>>]

\* The router hands the handler's result (or error) back to the client.
Respond == last.op # "idle" /\ last' = Idle /\ UNCHANGED <<db, txn, cipher, submitted, auth>>

Init ==
  /\ users = <<>>
  /\ vaults = <<>>
  /\ categories = <<>>
  /\ items = <<>>
  /\ perms = <<>>
  /\ serial = [users |-> 0, vaults |-> 0, categories |-> 0, items |-> 0, perms |-> 0]
  /\ last = Idle
  /\ txn = [p \in Procs |-> IdleTxn]
  /\ cipher = NoCipher
  /\ submitted = <<>>
  /\ auth = NoAuth

\* The ids a request may name: every id handed out so far and the next one
\* (a row that does not exist).
UserIds == 1 .. (serial.users + 1)
VaultIds == 1 .. (serial.vaults + 1)
PermissionIds == 1 .. (serial.perms + 1)
ItemIds == 1 .. (serial.items + 1)
\* Of a vault's default categories requests name the first one only.
CategoryIds ==
  {c \in DOMAIN categories : categories[c].name \in {"Personal", "Custom"}}
    \cup {serial.categories + 1}
\* The authenticated caller is an existing user.
Callers == DOMAIN users

Presence(field) == {{}, {field}}
ItemPassword == <<1>>
ItemIV == [i \in 1 .. BlockSize |-> 1]
GrantInputs == [vault_id : VaultIds, user_id : UserIds, permission : VaultPermission]

\* A request that runs alone: none is outstanding and none is in flight.
\* What the clients have sent for the passwords of the items that exist, after
\* the call recorded in last'.
Recorded ==
  LET kept == [i \in DOMAIN submitted \cap DOMAIN items' |-> submitted[i]] IN
  IF last'.op = "createCredentialItem" /\ serial'.items # serial.items
    THEN Insert(kept, serial'.items, SubmittedField(last'.input))
  ELSE IF /\ last'.op = "updateCredentialItem"
          /\ last'.err = OK
          /\ "password" \in last'.input.present
    THEN [kept EXCEPT ![last'.input.id] = SubmittedField(last'.input)]
  ELSE kept

Alone(request) ==
  Ready /\ request /\ submitted' = Recorded /\ UNCHANGED <<txn, cipher, auth>>

UserRequest ==
  \/ Alone(createUser(NewUser))
  \/ \E id \in UserIds : Alone(deleteUser(id))
  \/ \E id \in UserIds :
       Alone(updateUser([id |-> id, present |-> {"is_active"}, is_active |-> TRUE]))

VaultRequest ==
  \/ \E c \in Callers : Alone(createVault([is_shared |-> FALSE], c))
  \/ \E c \in Callers, v \in VaultIds, present \in Presence("is_shared") :
       Alone(updateVault([id |-> v, present |-> present, is_shared |-> TRUE], c))
  \/ \E c \in Callers, v \in VaultIds : Alone(deleteVault(v, c))

GrantRequest ==
  \/ \E c \in Callers, input \in GrantInputs : Alone(createVaultPermission(input, c))
  \/ \E c \in Callers, p \in PermissionIds, level \in VaultPermission :
       Alone(updateVaultPermission([id |-> p, permission |-> level], c))
  \/ \E c \in Callers, p \in PermissionIds : Alone(revokeVaultPermission(p, c))

GrantQuery ==
  \/ \E c \in Callers, v \in VaultIds : Alone(getUserPermissionForVaultQuery(v, c))
  \/ \E c \in Callers, v \in VaultIds : Alone(getVaultPermissions(v, c))
  \/ \E c \in Callers : Alone(getUserVaults(c))

CategoryRequest ==
  \/ \E c \in Callers, v \in VaultIds : Alone(createCategory([name |-> "Custom", vault_id |-> v], c))
  \/ \E c \in Callers, id \in CategoryIds :
       Alone(updateCategory([id |-> id, present |-> {}], c))
  \/ \E c \in Callers, v \in VaultIds : Alone(getCategoriesByVault(v, c))
  \/ \E c \in Callers, id \in CategoryIds : Alone(getCategoryById(id, c))
  \/ \E c \in Callers, id \in CategoryIds : Alone(deleteCategory(id, c))

NewItem(v, cat) ==
  [title |-> <<"a">>, type |-> "password", vault_id |-> v, category_id |-> cat,
   password |-> ItemPassword, null |-> {}]

ItemRequest ==
  \/ \E c \in Callers, v \in VaultIds, cat \in CategoryIds \cup {NoCategory} :
       Alone(createCredentialItem(NewItem(v, cat), c, ItemIV))
  \/ \E c \in Callers, i \in ItemIds, cat \in CategoryIds \cup {NoCategory},
        present \in Presence("category_id") :
       Alone(updateCredentialItem([id |-> i, present |-> present, category_id |-> cat], c, ItemIV))
  \/ \E c \in Callers, v \in VaultIds : Alone(getItemsByVault(v, c))
  \/ \E c \in Callers, i \in ItemIds : Alone(getItemById(i, c))
  \/ \E c \in Callers, v \in VaultIds :
       Alone(searchItems([present |-> {"vault_id"}, vault_id |-> v], c))
  \/ \E c \in Callers, i \in ItemIds : Alone(deleteCredentialItem(i, c))

\* Users, vaults and grants.
NextGrants ==
  \/ UserRequest
  \/ VaultRequest
  \/ GrantRequest
  \/ GrantQuery
  \/ Respond

SpecGrants == Init /\ [][NextGrants]_vars

\* Items and categories of one vault, for callers of every level.
NextData ==
  \/ Alone(createUser(NewUser))
  \/ serial.vaults < DataVaults /\ \E c \in Callers : Alone(createVault([is_shared |-> FALSE], c))
  \/ \E c \in Callers, v \in VaultIds : Alone(deleteVault(v, c))
  \/ \E c \in Callers, input \in GrantInputs : Alone(createVaultPermission(input, c))
  \/ CategoryRequest
  \/ ItemRequest
  \/ Respond

SpecData == Init /\ [][NextData]_vars

\* Every vault, category, item and grant operation on one vault, for callers
\* of every level and active and deactivated targets.
NextRejections ==
  \/ Alone(createUser(NewUser))
  \/ \E id \in UserIds : Alone(deleteUser(id))
  \/ serial.vaults < DataVaults /\ \E c \in Callers : Alone(createVault([is_shared |-> FALSE], c))
  \/ \E c \in Callers, v \in VaultIds :
       Alone(updateVault([id |-> v, present |-> {}, is_shared |-> TRUE], c))
  \/ \E c \in Callers, v \in VaultIds : Alone(deleteVault(v, c))
  \/ GrantRequest
  \/ \E c \in Callers, v \in VaultIds : Alone(createCategory([name |-> "Custom", vault_id |-> v], c))
  \/ \E c \in Callers, id \in CategoryIds : Alone(updateCategory([id |-> id, present |-> {}], c))
  \/ \E c \in Callers, id \in CategoryIds : Alone(deleteCategory(id, c))
  \/ /\ serial.items < ConcItems
     /\ \E c \in Callers, v \in VaultIds, cat \in CategoryIds \cup {NoCategory} :
          Alone(createCredentialItem(NewItem(v, cat), c, ItemIV))
  \/ \E c \in Callers, i \in ItemIds :
       Alone(updateCredentialItem([id |-> i, present |-> {}, category_id |-> NoCategory], c, ItemIV))
  \/ \E c \in Callers, i \in ItemIds : Alone(deleteCredentialItem(i, c))
  \/ Respond

SpecRejections == Init /\ [][NextRejections]_vars

\* Vaults filled with items, categories and grants, and deleted.
NextCascade ==
  \/ Alone(createUser(NewUser))
  \/ \E c \in Callers : Alone(createVault([is_shared |-> FALSE], c))
  \/ \E c \in Callers, input \in GrantInputs : Alone(createVaultPermission(input, c))
  \/ \E c \in Callers, v \in VaultIds :
       Alone(createCategory([name |-> "Custom", vault_id |-> v], c))
  \/ \E c \in Callers, v \in VaultIds :
       Alone(createCredentialItem(NewItem(v, NoCategory), c, ItemIV))
  \/ \E c \in Callers, v \in VaultIds : Alone(deleteVault(v, c))
  \/ Respond

SpecCascade == Init /\ [][NextCascade]_vars

\* One vault whose grants are handed out at 'read' and changed afterwards,
\* with the grantees listing and creating items in between.
NextUpgrade ==
  \/ Alone(createUser(NewUser))
  \/ serial.vaults < DataVaults /\ \E c \in Callers : Alone(createVault([is_shared |-> FALSE], c))
  \/ \E c \in Callers, v \in VaultIds, u \in UserIds :
       Alone(createVaultPermission([vault_id |-> v, user_id |-> u, permission |-> "read"], c))
  \/ \E c \in Callers, p \in PermissionIds, level \in VaultPermission :
       Alone(updateVaultPermission([id |-> p, permission |-> level], c))
  \/ \E c \in Callers, v \in VaultIds : Alone(getItemsByVault(v, c))
  \/ \E c \in Callers, v \in VaultIds :
       Alone(createCredentialItem(NewItem(v, NoCategory), c, ItemIV))
  \/ Respond

SpecUpgrade == Init /\ [][NextUpgrade]_vars

\* Users deactivated and reactivated around the grants and items of one vault.
NextDeactivate ==
  \/ Alone(createUser(NewUser))
  \/ \E id \in UserIds : Alone(deleteUser(id))
  \/ \E id \in UserIds, active \in BOOLEAN :
       Alone(updateUser([id |-> id, present |-> {"is_active"}, is_active |-> active]))
  \/ serial.vaults < DataVaults /\ \E c \in Callers : Alone(createVault([is_shared |-> FALSE], c))
  \/ \E c \in Callers, input \in GrantInputs : Alone(createVaultPermission(input, c))
  \/ \E c \in Callers, v \in VaultIds :
       Alone(createCredentialItem(NewItem(v, NoCategory), c, ItemIV))
  \/ Respond

SpecDeactivate == Init /\ [][NextDeactivate]_vars

\* Vaults and grants made and removed, and the vaults a user is shown.
NextVisibility ==
  \/ Alone(createUser(NewUser))
  \/ \E c \in Callers : Alone(createVault([is_shared |-> FALSE], c))
  \/ \E c \in Callers, input \in GrantInputs : Alone(createVaultPermission(input, c))
  \/ \E c \in Callers, p \in PermissionIds : Alone(revokeVaultPermission(p, c))
  \/ \E c \in Callers, v \in VaultIds : Alone(deleteVault(v, c))
  \/ \E c \in Callers : Alone(getVaultsByUser(c))
  \/ \E c \in Callers, v \in VaultIds : Alone(getVaultById(v, c))
  \/ \E c \in Callers : Alone(getUserVaults(c))
  \/ \E c \in Callers, v \in VaultIds : Alone(getVaultPermissions(v, c))
  \/ Respond

SpecVisibility == Init /\ [][NextVisibility]_vars

\* Items of two kinds in vaults owned and shared, searched with and without
\* a vault id.
ItemKinds ==
  {[title |-> <<"a">>, type |-> "password"], [title |-> <<"B">>, type |-> "secure_note"]}
SearchFilters ==
  {[present |-> {}],
   [present |-> {"query"}, query |-> <<"b">>],
   [present |-> {"query"}, query |-> <<" ">>],
   [present |-> {"type"}, type |-> "secure_note"],
   [present |-> {"category_id"}, category_id |-> NoCategory]}
WithVault(filter, v) ==
  [present |-> filter.present \cup {"vault_id"}] @@ [vault_id |-> v] @@ filter

NextSearch ==
  \/ Alone(createUser(NewUser))
  \/ \E c \in Callers : Alone(createVault([is_shared |-> FALSE], c))
  \/ \E c \in Callers, v \in VaultIds, u \in UserIds :
       Alone(createVaultPermission([vault_id |-> v, user_id |-> u, permission |-> "read"], c))
  \/ \E c \in Callers, v \in VaultIds, kind \in ItemKinds :
       Alone(createCredentialItem(
               [title |-> kind.title, type |-> kind.type, vault_id |-> v,
                category_id |-> NoCategory, password |-> ItemPassword, null |-> {}], c, ItemIV))
  \/ \E c \in Callers, filter \in SearchFilters : Alone(searchItems(filter, c))
  \/ \E c \in Callers, filter \in SearchFilters, v \in VaultIds :
       Alone(searchItems(WithVault(filter, v), c))
  \/ Respond

SpecSearch == Init /\ [][NextSearch]_vars

\* Sessions: tokens validated and logged out while users come and go and the
\* clock advances.  A request presents a token made at or before now, with
\* or without the right signature.
Presented == {t \in Token : t.iat <= auth.now}
AloneAuth(request) == Ready /\ request /\ UNCHANGED <<txn, cipher, submitted>>

Tick ==
  /\ auth.now < MaxClock
  /\ auth' = [auth EXCEPT !.now = @ + 1]
  /\ UNCHANGED <<db, last, txn, cipher, submitted>>

LoginInputs == [email : UserIds, password : Passwords]

NextAuth ==
  \/ Alone(createUser(NewUser))
  \/ Alone(createTestUser(NewUser.password))
  \/ \E input \in LoginInputs : AloneAuth(login(input))
  \/ \E id \in UserIds : Alone(deleteUser(id))
  \/ \E id \in UserIds :
       Alone(updateUser([id |-> id, present |-> {"is_active"}, is_active |-> TRUE]))
  \/ \E token \in Presented : AloneAuth(logout(token))
  \/ \E token \in Presented : AloneAuth(validateSession(token))
  \/ Tick
  \/ Respond

SpecAuth == Init /\ [][NextAuth]_vars

\* Accounts made by createUser and by the tests' inserts, with each password,
\* and logins with each password.
NextLogin ==
  \/ \E password \in Passwords : Alone(createUser([password |-> password]))
  \/ \E password \in Passwords : Alone(createTestUser(password))
  \/ \E password \in Passwords : Alone(createTestUserWithSimpleHash(password))
  \/ \E id \in UserIds : Alone(deleteUser(id))
  \/ \E input \in LoginInputs : AloneAuth(login(input))
  \/ \E token \in Presented : AloneAuth(validateSession(token))
  \/ Tick
  \/ Respond

SpecLogin == Init /\ [][NextLogin]_vars

\* Items of one vault whose password is written, rewritten and read back.
\* The code units the passwords are made of: an ASCII one, one that takes two
\* bytes, and a surrogate without its pair.
SecretUnits == {1, AsciiLimit, LoneSurrogate}
SecretTexts == UNION {[1 .. n -> SecretUnits] : n \in 0 .. SecretLen}
SecretInputs ==
  {[password |-> NoText, null |-> {"password"}]}
    \cup {[password |-> t, null |-> {}] : t \in SecretTexts}
SecretIVs == {[i \in 1 .. BlockSize |-> b] : b \in 0 .. MaxIvByte}

NextSecrets ==
  \/ Alone(createUser(NewUser))
  \/ serial.vaults < DataVaults /\ \E c \in Callers : Alone(createVault([is_shared |-> FALSE], c))
  \/ \E c \in Callers, v \in VaultIds, secret \in SecretInputs, iv \in SecretIVs :
       Alone(createCredentialItem(
               [title |-> <<"a">>, type |-> "password", vault_id |-> v,
                category_id |-> NoCategory, password |-> secret.password,
                null |-> secret.null], c, iv))
  \/ \E c \in Callers, i \in ItemIds, secret \in SecretInputs, iv \in SecretIVs :
       Alone(updateCredentialItem(
               [id |-> i, present |-> {"password"}, password |-> secret.password,
                null |-> secret.null], c, iv))
  \/ \E c \in Callers, i \in ItemIds :
       Alone(updateCredentialItem([id |-> i, present |-> {"title"}, title |-> <<"b">>], c, ItemIV))
  \/ \E c \in Callers, v \in VaultIds : Alone(getItemsByVault(v, c))
  \/ \E c \in Callers, i \in ItemIds : Alone(getItemById(i, c))
  \/ \E c \in Callers, v \in VaultIds :
       Alone(searchItems([present |-> {"vault_id"}, vault_id |-> v], c))
  \/ Respond

SpecSecrets == Init /\ [][NextSecrets]_vars

\* Items of one vault patched field by field: every choice of the fields
\* present, the category null or the vault's first one, the password null,
\* empty or a text.
Patches ==
  {[id |-> i, present |-> present, title |-> <<"b">>, category_id |-> cat,
    password |-> secret.password, null |-> secret.null] :
     i \in ItemIds, present \in SUBSET {"title", "category_id", "password"},
     cat \in (CategoryIds \cap DOMAIN categories) \cup {NoCategory},
     secret \in {[password |-> NoText, null |-> {"password"}],
                 [password |-> NoText, null |-> {}],
                 [password |-> <<AsciiLimit>>, null |-> {}]}}
\* A field that is absent carries no value, and an IV is drawn for a password
\* that is encrypted.
Sent(input, iv) ==
  /\ "category_id" \notin input.present => input.category_id = NoCategory
  /\ "password" \notin input.present => "password" \in input.null
  /\ ("password" \notin input.present \/ input.password = NoText) => iv = ItemIV

NextPatch ==
  \/ Alone(createUser(NewUser))
  \/ serial.vaults < DataVaults /\ \E c \in Callers : Alone(createVault([is_shared |-> FALSE], c))
  \/ \E c \in Callers, v \in VaultIds, cat \in (CategoryIds \cap DOMAIN categories) \cup {NoCategory} :
       Alone(createCredentialItem(NewItem(v, cat), c, ItemIV))
  \/ \E c \in Callers, input \in Patches, iv \in SecretIVs :
       Sent(input, iv) /\ Alone(updateCredentialItem(input, c, iv))
  \/ Respond

SpecPatch == Init /\ [][NextPatch]_vars

\* Passwords generated for the shortest and the longest lengths, whole and
\* not, with every choice of character sets.
Lengths ==
  {Halves * MinLength, Halves * MinLength + 1, Halves * (MinLength + 1),
   Halves * MaxLength - 1, Halves * MaxLength}
GeneratePasswordInputs ==
  [length : Lengths, include_uppercase : BOOLEAN, include_lowercase : BOOLEAN,
   include_numbers : BOOLEAN, include_symbols : BOOLEAN, exclude_ambiguous : BOOLEAN]

NextGenerate ==
  \/ \E input \in GeneratePasswordInputs : Alone(generatePassword(input))
  \/ Respond

SpecGenerate == Init /\ [][NextGenerate]_vars

\* ------------------------------------------------ encrypt and decrypt alone
\* cipher.text is a sensitive field's value, cipher.ivs the values randomBytes
\* returned to the calls of encrypt(text) so far, cipher.stored what the calls
\* returned and cipher.opened what decrypt made of the stored values.
Texts == UNION {[1 .. n -> CodeUnit] : n \in 0 .. MaxTextLen}
IVs == [1 .. BlockSize -> 0 .. MaxIvByte]

InitCipher ==
  /\ users = <<>>
  /\ vaults = <<>>
  /\ categories = <<>>
  /\ items = <<>>
  /\ perms = <<>>
  /\ serial = [users |-> 0, vaults |-> 0, categories |-> 0, items |-> 0, perms |-> 0]
  /\ last = Idle
  /\ txn = [p \in Procs |-> IdleTxn]
  /\ cipher \in {[NoCipher EXCEPT !.text = t] : t \in Texts}
  /\ submitted = <<>>
  /\ auth = NoAuth

encryptCall(iv) ==
  /\ Len(cipher.stored) < MaxEncryptions
  /\ cipher' = [cipher EXCEPT !.ivs = Append(@, iv),
                              !.stored = Append(@, encrypt(cipher.text, iv))]
  /\ UNCHANGED <<db, last, txn, submitted, auth>>

decryptCall ==
  /\ Len(cipher.opened) < Len(cipher.stored)
  /\ cipher' = [cipher EXCEPT !.opened =
                  Append(@, decrypt(cipher.stored[Len(cipher.opened) + 1]))]
  /\ UNCHANGED <<db, last, txn, submitted, auth>>

NextCipher ==
  \/ \E iv \in IVs : encryptCall(iv)
  \/ decryptCall

SpecCipher == InitCipher /\ [][NextCipher]_vars

\* ------------------------------------------------ requests that overlap
\* A handler awaits each SQL statement and opens no transaction (no
\* db.transaction anywhere in handlers/), so between two statements of one
\* request the statements of another may run.  A request in flight is a
\* process: txn[p].pc is the statement it runs next.  The selects a handler
\* issues before its first write are taken together as one step; each write
\* is a step of its own.
ErrStatement == "statement failed"

Begun(p, op, c, id, user, level, pc) ==
  txn' = [txn EXCEPT ![p] = [pc |-> pc, op |-> op, caller |-> c, id |-> id,
                             user |-> user, level |-> level, err |-> OK]]
Goto(p, pc) == txn' = [txn EXCEPT ![p].pc = pc]
Done(p, err) == txn' = [txn EXCEPT ![p].pc = "done", ![p].err = err]
Refused(p, op, c, id, err) ==
  txn' = [txn EXCEPT ![p] = [pc |-> "done", op |-> op, caller |-> c, id |-> id,
                             user |-> NoUser, level |-> NULL, err |-> err]]
At(p, pc) == txn[p].pc = pc

\* users.ts createUser: a single insert.
createUser_insert(p) ==
  /\ At(p, "idle")
  /\ serial.users < MaxUsers
  /\ users' = Insert(users, serial.users + 1,
                     [is_active |-> TRUE,
                      password_hash |-> [hash |-> Sha256(<<NewUser.password, First(Salts)>>),
                                         salt |-> First(Salts)]])
  /\ serial' = [serial EXCEPT !.users = @ + 1]
  /\ Begun(p, "createUser", NoUser, serial.users + 1, NoUser, NULL, "done")
  /\ UNCHANGED <<vaults, categories, items, perms, last, cipher, submitted, auth>>

\* createVaultPermission: the checks of lines 11-39 ...
createVaultPermission_check(p, input, grantedByUserId) ==
  LET grantingUserPermission == getUserPermissionForVault(input.vault_id, grantedByUserId)
      refuse(err) == Refused(p, "createVaultPermission", grantedByUserId, input.vault_id, err)
  IN
  /\ At(p, "idle")
  /\ serial.perms < MaxPermissions
  /\ IF grantingUserPermission = ErrVaultNotFound THEN refuse(ErrVaultNotFound)
     ELSE IF grantingUserPermission \notin {"admin", "owner"} THEN refuse(ErrGrantInsufficient)
     ELSE IF input.user_id \notin DOMAIN users THEN refuse(ErrTargetNotFound)
     ELSE IF ~users[input.user_id].is_active THEN refuse(ErrTargetInactive)
     ELSE IF PermissionRows(input.vault_id, input.user_id) # {} THEN refuse(ErrDuplicate)
     ELSE Begun(p, "createVaultPermission", grantedByUserId, input.vault_id,
                input.user_id, input.permission, "createVaultPermission:insert")
  /\ UNCHANGED <<db, last, cipher, submitted, auth>>

\* ... and the insert of lines 42-50.
createVaultPermission_insert(p) ==
  /\ At(p, "createVaultPermission:insert")
  /\ perms' = Insert(perms, serial.perms + 1,
                     [vault_id |-> txn[p].id, user_id |-> txn[p].user,
                      permission |-> txn[p].level, granted_by |-> txn[p].caller])
  /\ serial' = [serial EXCEPT !.perms = @ + 1]
  /\ Done(p, OK)
  /\ UNCHANGED <<users, vaults, categories, items, last, cipher, submitted, auth>>

\* createVault: the vault insert, the owner's admin grant, the default categories.
createVault_insertVault(p, userId) ==
  /\ At(p, "idle")
  /\ serial.vaults < ConcVaults
  /\ serial.perms < MaxPermissions
  /\ vaults' = Insert(vaults, serial.vaults + 1, [owner_id |-> userId, is_shared |-> FALSE])
  /\ serial' = [serial EXCEPT !.vaults = @ + 1]
  /\ Begun(p, "createVault", userId, serial.vaults + 1, userId, "admin", "createVault:grant")
  /\ UNCHANGED <<users, categories, items, perms, last, cipher, submitted, auth>>

createVault_insertGrant(p) ==
  /\ At(p, "createVault:grant")
  /\ perms' = Insert(perms, serial.perms + 1,
                     [vault_id |-> txn[p].id, user_id |-> txn[p].caller,
                      permission |-> "admin", granted_by |-> txn[p].caller])
  /\ serial' = [serial EXCEPT !.perms = @ + 1]
  /\ Goto(p, "createVault:categories")
  /\ UNCHANGED <<users, vaults, categories, items, last, cipher, submitted, auth>>

createVault_insertCategories(p) ==
  LET n == Len(DefaultCategoryNames) IN
  /\ At(p, "createVault:categories")
  /\ categories' = categories @@
       [c \in (serial.categories + 1) .. (serial.categories + n) |->
          [name |-> DefaultCategoryNames[c - serial.categories], vault_id |-> txn[p].id]]
  /\ serial' = [serial EXCEPT !.categories = @ + n]
  /\ Done(p, OK)
  /\ UNCHANGED <<users, vaults, items, perms, last, cipher, submitted, auth>>

\* createCredentialItem: the permission check, then the insert.
createCredentialItem_check(p, input, userId) ==
  /\ At(p, "idle")
  /\ serial.items < ConcItems
  /\ IF ~checkVaultPermission(input.vault_id, userId, "write")
       THEN Refused(p, "createCredentialItem", userId, input.vault_id, ErrItemInsufficient)
       ELSE Begun(p, "createCredentialItem", userId, input.vault_id, NoUser, NULL,
                  "createCredentialItem:insert")
  /\ UNCHANGED <<db, last, cipher, submitted, auth>>

createCredentialItem_insert(p) ==
  /\ At(p, "createCredentialItem:insert")
  /\ items' = Insert(items, serial.items + 1,
                     [title |-> <<"a">>, type |-> "password", vault_id |-> txn[p].id,
                      category_id |-> NoCategory, created_by |-> txn[p].caller,
                      password_encrypted |-> NoText])
  /\ serial' = [serial EXCEPT !.items = @ + 1]
  /\ Done(p, OK)
  /\ UNCHANGED <<users, vaults, categories, perms, last, cipher, submitted, auth>>

\* deleteVault: the select by id and owner, then the four deletes.
deleteVault_select(p, id, userId) ==
  /\ At(p, "idle")
  /\ IF ~(id \in DOMAIN vaults /\ vaults[id].owner_id = userId)
       THEN Refused(p, "deleteVault", userId, id, ErrDeleteVault)
       ELSE Begun(p, "deleteVault", userId, id, NoUser, NULL, "deleteVault:items")
  /\ UNCHANGED <<db, last, cipher, submitted, auth>>

deleteVault_deleteItems(p) ==
  /\ At(p, "deleteVault:items")
  /\ items' = Remove(items, {i \in DOMAIN items : items[i].vault_id = txn[p].id})
  /\ Goto(p, "deleteVault:categories")
  /\ UNCHANGED <<users, vaults, categories, perms, serial, last, cipher, submitted, auth>>

deleteVault_deleteCategories(p) ==
  /\ At(p, "deleteVault:categories")
  /\ categories' = Remove(categories, {c \in DOMAIN categories : categories[c].vault_id = txn[p].id})
  /\ Goto(p, "deleteVault:permissions")
  /\ UNCHANGED <<users, vaults, items, perms, serial, last, cipher, submitted, auth>>

deleteVault_deletePermissions(p) ==
  /\ At(p, "deleteVault:permissions")
  /\ perms' = Remove(perms, {q \in DOMAIN perms : perms[q].vault_id = txn[p].id})
  /\ Goto(p, "deleteVault:vault")
  /\ UNCHANGED <<users, vaults, categories, items, serial, last, cipher, submitted, auth>>

deleteVault_deleteVault(p) ==
  /\ At(p, "deleteVault:vault")
  /\ vaults' = Remove(vaults, {txn[p].id})
  /\ Done(p, OK)
  /\ UNCHANGED <<users, categories, items, perms, serial, last, cipher, submitted, auth>>

\* deleteCategory: the select and permission check, the update of the items,
\* the delete of the category.
deleteCategory_select(p, id, userId) ==
  /\ At(p, "idle")
  /\ IF id \notin DOMAIN categories
       THEN Refused(p, "deleteCategory", userId, id, ErrCategoryNotFound)
     ELSE IF ~checkVaultPermissionCategories(categories[id].vault_id, userId, "write")
       THEN Refused(p, "deleteCategory", userId, id, ErrDeleteCategoryInsufficient)
     ELSE Begun(p, "deleteCategory", userId, id, NoUser, NULL, "deleteCategory:items")
  /\ UNCHANGED <<db, last, cipher, submitted, auth>>

deleteCategory_updateItems(p) ==
  /\ At(p, "deleteCategory:items")
  /\ items' = [i \in DOMAIN items |->
                 IF items[i].category_id = txn[p].id
                   THEN [items[i] EXCEPT !.category_id = NoCategory]
                   ELSE items[i]]
  /\ Goto(p, "deleteCategory:category")
  /\ UNCHANGED <<users, vaults, categories, perms, serial, last, cipher, submitted, auth>>

deleteCategory_deleteCategory(p) ==
  /\ At(p, "deleteCategory:category")
  /\ categories' = Remove(categories, {txn[p].id})
  /\ Done(p, OK)
  /\ UNCHANGED <<users, vaults, items, perms, serial, last, cipher, submitted, auth>>

\* revokeVaultPermission: the selects and checks of lines 168-193, then the
\* delete of lines 196-198.
revokeVaultPermission_check(p, permissionId, userId) ==
  LET refuse(err) == Refused(p, "revokeVaultPermission", userId, permissionId, err) IN
  /\ At(p, "idle")
  /\ IF permissionId \notin DOMAIN perms THEN refuse(ErrPermissionNotFound)
     ELSE LET permission == perms[permissionId]
              userPermission == getUserPermissionForVault(permission.vault_id, userId)
          IN
          IF userPermission = ErrVaultNotFound THEN refuse(ErrVaultNotFound)
          ELSE IF userPermission \notin {"admin", "owner"} THEN refuse(ErrRevokeInsufficient)
          ELSE IF vaults[permission.vault_id].owner_id = permission.user_id
            THEN refuse(ErrRevokeOwner)
          ELSE Begun(p, "revokeVaultPermission", userId, permissionId, permission.user_id,
                     NULL, "revokeVaultPermission:delete")
  /\ UNCHANGED <<db, last, cipher, submitted, auth>>

revokeVaultPermission_delete(p) ==
  /\ At(p, "revokeVaultPermission:delete")
  /\ perms' = Remove(perms, {txn[p].id})
  /\ Done(p, OK)
  /\ UNCHANGED <<users, vaults, categories, items, serial, last, cipher, submitted, auth>>

\* A statement after the first write is rejected by the store (connection
\* lost, statement timeout): execute() throws, the handler's catch logs and
\* rethrows, and nothing undoes the statements already run.
Written ==
  {"createVault:grant", "createVault:categories", "deleteVault:categories",
   "deleteVault:permissions", "deleteVault:vault", "deleteCategory:category"}
statementFails(p) ==
  /\ txn[p].pc \in Written
  /\ Done(p, ErrStatement)
  /\ UNCHANGED <<db, last, cipher, submitted, auth>>

\* The response is sent and the connection serves the next request.
respond(p) ==
  /\ At(p, "done")
  /\ txn' = [txn EXCEPT ![p] = IdleTxn]
  /\ UNCHANGED <<db, last, cipher, submitted, auth>>

\* Overlapping requests name rows that exist.
ConcGrantInputs == [vault_id : DOMAIN vaults, user_id : DOMAIN users, permission : {"read"}]

NextConc ==
  \E p \in Procs :
    \/ createUser_insert(p)
    \/ \E c \in Callers, input \in ConcGrantInputs : createVaultPermission_check(p, input, c)
    \/ createVaultPermission_insert(p)
    \/ \E c \in Callers : createVault_insertVault(p, c)
    \/ createVault_insertGrant(p)
    \/ createVault_insertCategories(p)
    \/ \E c \in Callers, v \in DOMAIN vaults :
         createCredentialItem_check(p, NewItem(v, NoCategory), c)
    \/ createCredentialItem_insert(p)
    \/ \E c \in Callers, v \in DOMAIN vaults : deleteVault_select(p, v, c)
    \/ deleteVault_deleteItems(p)
    \/ deleteVault_deleteCategories(p)
    \/ deleteVault_deletePermissions(p)
    \/ deleteVault_deleteVault(p)
    \/ \E c \in Callers, id \in CategoryIds \cap DOMAIN categories :
         deleteCategory_select(p, id, c)
    \/ deleteCategory_updateItems(p)
    \/ deleteCategory_deleteCategory(p)
    \/ statementFails(p)
    \/ respond(p)

SpecConc == Init /\ [][NextConc]_vars

\* Grants at two levels handed out and revoked while items are created, the
\* requests overlapping.
RaceGrantInputs ==
  [vault_id : DOMAIN vaults, user_id : DOMAIN users, permission : {"write", "admin"}]

NextRace ==
  \E p \in Procs :
    \/ createUser_insert(p)
    \/ \E c \in Callers : createVault_insertVault(p, c)
    \/ createVault_insertGrant(p)
    \/ createVault_insertCategories(p)
    \/ \E c \in Callers, input \in RaceGrantInputs : createVaultPermission_check(p, input, c)
    \/ createVaultPermission_insert(p)
    \/ \E c \in Callers, id \in DOMAIN perms : revokeVaultPermission_check(p, id, c)
    \/ revokeVaultPermission_delete(p)
    \/ \E c \in Callers, v \in DOMAIN vaults :
         createCredentialItem_check(p, NewItem(v, NoCategory), c)
    \/ createCredentialItem_insert(p)
    \/ respond(p)

SpecRace == Init /\ [][NextRace]_vars

\* ------------------------------------------------------------------ claims
OwnerRows(v) == PermissionRows(v, vaults[v].owner_id)

\* This step is a call of the handler op; last' holds its arguments and outcome.
Called(op) == last.op = "idle" /\ last'.op = op

\* C1 (ownership supremacy): in every reachable state, for every existing vault
\* getUserPermissionForVault answers 'owner' for the vault's owner, whether or
\* not a grant row of the owner exists and whatever level it carries.
C1_OwnershipSupremacy ==
  \A v \in DOMAIN vaults : getUserPermissionForVault(v, vaults[v].owner_id) = "owner"

\* The owner holds a grant row that another admin has lowered to 'read'.
C1_OwnerWithLowerGrant ==
  \E v \in DOMAIN vaults :
    /\ \E p \in OwnerRows(v) : perms[p].permission = "read"
    /\ getUserPermissionForVault(v, vaults[v].owner_id) = "owner"

\* C2 (owner access cannot be revoked or altered): no grant, vault or user
\* operation changes the owner_id of a vault that still exists or the owner's
\* effective permission 'owner', and revokeVaultPermission on a grant row of the
\* vault's owner is rejected and leaves the row in place.
C2_OwnerAccessKept ==
  [][/\ \A v \in DOMAIN vaults \cap DOMAIN vaults' :
          /\ vaults'[v].owner_id = vaults[v].owner_id
          /\ getUserPermissionForVault(v, vaults[v].owner_id)' = "owner"
     /\ \A v \in DOMAIN vaults :
          (Called("revokeVaultPermission") /\ last'.input \in OwnerRows(v))
            => /\ last'.err # OK
               /\ last'.input \in DOMAIN perms'
               /\ perms'[last'.input] = perms[last'.input]]_vars

\* An admin's attempt to revoke the row of an owner who has been deactivated.
C2_RevokeOwnerRejected ==
  /\ last.op = "revokeVaultPermission"
  /\ last.err = ErrRevokeOwner
  /\ last.input \in DOMAIN perms
  /\ LET v == perms[last.input].vault_id IN
       /\ perms[last.input].user_id = vaults[v].owner_id
       /\ vaults[v].owner_id # last.caller
       /\ ~users[vaults[v].owner_id].is_active

\* C6 (self-modification guard): updateVaultPermission on a grant row whose
\* user_id is the caller fails and leaves the row's permission as it was, for
\* callers of every level, admin and owner included.
C6_SelfModificationGuard ==
  [][(/\ Called("updateVaultPermission")
       /\ last'.input.id \in DOMAIN perms
       /\ perms[last'.input.id].user_id = last'.caller)
        => /\ last'.err # OK
           /\ perms' = perms]_vars

\* An admin (by grant, not the owner) was refused a change of its own row.
C6_AdminRefusedOwnRow ==
  /\ last.op = "updateVaultPermission"
  /\ last.err = ErrSelfModification
  /\ LET row == perms[last.input.id] IN
       /\ row.user_id = last.caller
       /\ row.permission = "admin"
       /\ row.permission # last.input.permission
       /\ vaults[row.vault_id].owner_id # last.caller

\* The operations gated on 'write' and on 'read', and what each throws to a
\* caller below that level.
WriteGated ==
  {"createCredentialItem", "updateCredentialItem", "deleteCredentialItem",
   "createCategory", "updateCategory", "deleteCategory"}
ReadGated ==
  {"getItemsByVault", "getItemById", "searchItems", "getCategoriesByVault", "getCategoryById"}
InsufficientError(op) ==
  CASE op = "createCategory" -> ErrCreateCategoryInsufficient
    [] op = "updateCategory" -> ErrUpdateCategoryInsufficient
    [] op = "deleteCategory" -> ErrDeleteCategoryInsufficient
    [] op = "getCategoriesByVault" -> ErrVaultAccessInsufficient
    [] op = "getCategoryById" -> ErrCategoryAccessInsufficient
    [] OTHER -> ErrItemInsufficient

\* The vault a call addresses: the one it names, or the one of the item or
\* category it names (none when that row does not exist).
VaultOfItem(id) == {items[i].vault_id : i \in {id} \cap DOMAIN items}
VaultOfCategory(id) == {categories[c].vault_id : c \in {id} \cap DOMAIN categories}
VaultOfCall(call) ==
  CASE call.op \in {"createCredentialItem", "createCategory", "searchItems"} -> {call.input.vault_id}
    [] call.op \in {"getItemsByVault", "getCategoriesByVault"} -> {call.input}
    [] call.op = "updateCredentialItem" -> VaultOfItem(call.input.id)
    [] call.op \in {"getItemById", "deleteCredentialItem"} -> VaultOfItem(call.input)
    [] call.op = "updateCategory" -> VaultOfCategory(call.input.id)
    [] call.op \in {"getCategoryById", "deleteCategory"} -> VaultOfCategory(call.input)
    [] OTHER -> {}

\* C5 (permission monotonicity): on an existing vault a write-gated operation
\* succeeds for a caller at write, admin or owner and fails with its
\* insufficient-permission error, changing nothing, for read or none; a
\* read-gated operation succeeds for read, write, admin and owner and fails
\* for none.
C5_PermissionMonotonicity ==
  [][(last.op = "idle" /\ last'.op \in WriteGated \cup ReadGated)
       => \A v \in VaultOfCall(last') \cap DOMAIN vaults :
            LET level == getUserPermissionForVault(v, last'.caller)
                required == IF last'.op \in WriteGated
                              THEN {"write", "admin", "owner"}
                              ELSE {"read", "write", "admin", "owner"}
            IN
            IF level \in required
              THEN last'.err = OK
              ELSE last'.err = InsufficientError(last'.op) /\ UNCHANGED db]_vars

\* A caller holding 'read' was refused the creation of an item.
C5_ReadRefusedWrite ==
  /\ last.op = "createCredentialItem"
  /\ last.err = ErrItemInsufficient
  /\ getUserPermissionForVault(last.input.vault_id, last.caller) = "read"

\* C7 (cascade completeness): a deleteVault(V) that succeeds removes the vault
\* row and every category, item and grant row with vault_id = V, and leaves
\* the rows of the other vaults (and the users) as they were.
C7_CascadeCompleteness ==
  [][(Called("deleteVault") /\ last'.err = OK)
       => LET V == last'.input IN
          /\ vaults' = Remove(vaults, {V})
          /\ categories' = Remove(categories, {c \in DOMAIN categories : categories[c].vault_id = V})
          /\ items' = Remove(items, {i \in DOMAIN items : items[i].vault_id = V})
          /\ perms' = Remove(perms, {p \in DOMAIN perms : perms[p].vault_id = V})
          /\ \A c \in DOMAIN categories' : categories'[c].vault_id # V
          /\ \A i \in DOMAIN items' : items'[i].vault_id # V
          /\ \A p \in DOMAIN perms' : perms'[p].vault_id # V
          /\ users' = users]_vars

\* A vault holding an item, an added category and a second user's grant was
\* deleted while another vault keeps its own item and grant.
C7_VaultDeletedOtherKept ==
  /\ last.op = "deleteVault"
  /\ last.err = OK
  /\ Cardinality(DOMAIN items) < serial.items
  /\ Cardinality(DOMAIN categories) + Len(DefaultCategoryNames) < serial.categories
  /\ Cardinality(DOMAIN perms) + 1 < serial.perms
  /\ \E w \in DOMAIN vaults :
       /\ \E i \in DOMAIN items : items[i].vault_id = w
       /\ \E q \in DOMAIN perms : perms[q].vault_id = w

\* C9 (orphan-not-cascade): a deleteCategory(C) that succeeds removes the
\* category row, keeps every item, sets category_id to null on the items that
\* referenced C without touching their other fields, and leaves the other items
\* as they were.
C9_OrphanNotCascade ==
  [][(Called("deleteCategory") /\ last'.err = OK)
       => LET C == last'.input IN
          /\ categories' = Remove(categories, {C})
          /\ DOMAIN items' = DOMAIN items
          /\ \A i \in DOMAIN items :
               items'[i] = IF items[i].category_id = C
                             THEN [items[i] EXCEPT !.category_id = NoCategory]
                             ELSE items[i]]_vars

\* A category was deleted; one item is left without category and another
\* still references an existing category.
C9_CategoryDeletedItemsKept ==
  /\ last.op = "deleteCategory"
  /\ last.err = OK
  /\ \E i, j \in DOMAIN items :
       /\ items[i].category_id = NoCategory
       /\ items[j].category_id \in DOMAIN categories

\* C3 (grant uniqueness): in every reachable state each (vault_id, user_id)
\* pair has at most one grant row, and createVaultPermission adds no row for a
\* pair that already has one.
C3_GrantUniqueness ==
  /\ [](\A p, q \in DOMAIN perms :
          (perms[p].vault_id = perms[q].vault_id /\ perms[p].user_id = perms[q].user_id)
            => p = q)
  /\ [][\A p \in Procs :
          (At(p, "createVaultPermission:insert") /\ txn'[p].pc = "done" /\ txn'[p].err = OK)
            => PermissionRows(txn[p].id, txn[p].user) = {}]_vars

\* C4 (concurrent grants): of two createVaultPermission calls for the same
\* (vault, user) pair whose check and insert steps interleave, at most one
\* succeeds.
C4_NeverBothSucceed ==
  \A p, q \in Procs :
    (/\ p # q
     /\ txn[p].op = "createVaultPermission" /\ txn[q].op = "createVaultPermission"
     /\ txn[p].id = txn[q].id /\ txn[p].user = txn[q].user
     /\ At(p, "done") /\ At(q, "done"))
      => ~(txn[p].err = OK /\ txn[q].err = OK)

\* C8 (atomic multi-step mutations): while a createVault, deleteVault or
\* deleteCategory has run some but not all of its writes, no other request
\* runs a statement, and when one of its later statements fails nothing of
\* the earlier ones remains: the vault a failed createVault inserted is gone,
\* the vault of a failed deleteVault still has its owner's grant, and the
\* category of a failed deleteCategory is still referenced by the items it
\* was deleting from.
C8_MutationsAtomic ==
  /\ [][\A p \in Procs : txn[p].pc \in Written
          => \A q \in Procs \ {p} : (txn'[q] = txn[q] \/ At(q, "done"))]_vars
  /\ [](\A p \in Procs :
          (At(p, "done") /\ txn[p].err = ErrStatement /\ txn[p].op = "createVault")
            => txn[p].id \notin DOMAIN vaults)

\* encryptedText is iv_hex ':' ciphertext_hex for the IV iv: one colon, the
\* IV's hex digits before it, whole blocks of hex digits after it.
StoredAs(encryptedText, iv) ==
  /\ Colons(encryptedText) = {2 * BlockSize + 1}
  /\ fromHex(SplitFirst(encryptedText)) = iv
  /\ LET hex == SplitSecond(encryptedText) IN
       /\ Len(hex) > 0
       /\ Len(hex) % (2 * BlockSize) = 0
       /\ \A i \in 1 .. Len(hex) : IsHexDigit(hex[i])

\* C10 (encryption round-trip): for every non-empty string s without an
\* unpaired surrogate decrypt(encrypt(s)) = s; two calls of encrypt(s) whose
\* IVs differ return different stored values; and every stored value is
\* iv_hex ':' ciphertext_hex for the IV its call drew.
C10_RoundTrip ==
  /\ \A k \in 1 .. Len(cipher.opened) :
       (cipher.text # <<>> /\ WellFormed(cipher.text)) => cipher.opened[k] = cipher.text
  /\ \A j, k \in 1 .. Len(cipher.stored) :
       cipher.ivs[j] # cipher.ivs[k] => cipher.stored[j] # cipher.stored[k]
  /\ \A k \in 1 .. Len(cipher.stored) : StoredAs(cipher.stored[k], cipher.ivs[k])

\* A text of two code units, one of them not ASCII, encrypted twice under
\* different IVs and decrypted both times.
C10_TwoEncryptionsOpened ==
  /\ Len(cipher.text) = MaxTextLen
  /\ WellFormed(cipher.text)
  /\ \E i \in 1 .. Len(cipher.text) : cipher.text[i] >= AsciiLimit
  /\ Len(cipher.opened) = 2
  /\ cipher.ivs[1] # cipher.ivs[2]
  /\ cipher.opened[1] = cipher.text
  /\ cipher.opened[2] = cipher.text

\* C10 as stated: for every non-empty string s decrypt(encrypt(s)) = s, and
\* two calls of encrypt(s) return different stored values.
C10_RoundTripEveryString ==
  /\ \A k \in 1 .. Len(cipher.opened) :
       cipher.text # <<>> => cipher.opened[k] = cipher.text
  /\ \A j, k \in 1 .. Len(cipher.stored) :
       j # k => cipher.stored[j] # cipher.stored[k]

\* The stored column read as the handlers return it: null for a NULL column,
\* else the string decrypt made of it.
ReturnedField(value) == IF value = NoText THEN Nothing ELSE Plain(value)
\* What cipher.update(text, 'utf8') keeps of a string.
Utf8Kept(text) ==
  [i \in 1 .. Len(text) |-> IF text[i] = LoneSurrogate THEN ReplacementChar ELSE text[i]]
\* The password the last call returned for item i.
ReturnedPassword(i) ==
  IF last.op \in {"getItemsByVault", "searchItems"}
    THEN ReturnedField(last.ret[i].password_encrypted)
    ELSE ReturnedField(last.ret.item.password_encrypted)
\* The items the last call returned.
ReturnedItems ==
  IF last.err # OK THEN {}
  ELSE IF last.op \in {"getItemsByVault", "searchItems"} THEN DOMAIN last.ret
  ELSE IF last.op \in {"createCredentialItem", "updateCredentialItem"} THEN {last.ret.id}
  ELSE IF last.op = "getItemById" THEN {last.input} \cap DOMAIN items
  ELSE {}
\* The column holds NULL, or iv_hex ':' ciphertext_hex, which is longer than
\* the text it was made from.
AtRest(stored, text) ==
  \/ stored = NoText
  \/ (\E iv \in SecretIVs : StoredAs(stored, iv)) /\ Len(stored) > Len(text)

\* C11 (plaintext in, plaintext out, ciphertext only at rest): for every item
\* written through createCredentialItem or updateCredentialItem the stored
\* password column is NULL or an iv:ciphertext value (never the submitted
\* text), and the value create, update, getItemById, getItemsByVault and
\* searchItems return for it is the submitted one when that was null or a
\* non-empty string without unpaired surrogates; a submitted empty string is
\* stored as NULL and returned as null, and an unpaired surrogate comes back
\* as U+FFFD.
C11_PlaintextInOut ==
  /\ DOMAIN submitted = DOMAIN items
  /\ \A i \in DOMAIN items :
       /\ AtRest(items[i].password_encrypted, submitted[i].text)
       /\ (submitted[i].null \/ submitted[i].text = <<>>)
            <=> items[i].password_encrypted = NoText
  /\ \A i \in ReturnedItems :
       ReturnedPassword(i) =
         IF submitted[i].null \/ submitted[i].text = <<>>
           THEN Nothing
           ELSE Plain(Utf8Kept(submitted[i].text))

\* Two items read back in one call: one whose password was sent as a
\* two-byte character and comes back as sent, one that was sent without.
C11_SecretReadBack ==
  /\ last.op = "getItemsByVault"
  /\ last.err = OK
  /\ \E i, j \in DOMAIN last.ret :
       /\ submitted[i] = Plain(<<AsciiLimit>>)
       /\ items[i].password_encrypted # NoText
       /\ ReturnedPassword(i) = submitted[i]
       /\ submitted[j] = Nothing
       /\ ReturnedPassword(j) = Nothing

\* C11 as stated: the value returned for the field equals the plaintext that
\* was submitted.
C11_ReturnedAsSubmitted ==
  \A i \in ReturnedItems : ReturnedPassword(i) = submitted[i]

\* C12 (grant upgrade): an item operation is decided by the grant level in
\* force when it runs.  On an existing vault createCredentialItem returns for a
\* caller at write, admin or owner and throws the insufficient-permission
\* error, inserting nothing, otherwise; getItemsByVault returns for read and
\* above; and an updateVaultPermission that returns has set the row to the
\* level it was given, so that a grantee created at 'read' is refused the
\* creation of an item until the grant is changed to 'write' and is allowed
\* it from then on.
C12_GrantLevelInForce ==
  [][/\ (Called("createCredentialItem") /\ last'.input.vault_id \in DOMAIN vaults)
          => IF getUserPermissionForVault(last'.input.vault_id, last'.caller)
                  \in {"write", "admin", "owner"}
               THEN last'.err = OK /\ serial'.items \in DOMAIN items'
               ELSE last'.err = ErrItemInsufficient /\ UNCHANGED db
     /\ (Called("getItemsByVault") /\ last'.input \in DOMAIN vaults)
          => IF getUserPermissionForVault(last'.input, last'.caller)
                  \in {"read", "write", "admin", "owner"}
               THEN last'.err = OK
               ELSE last'.err = ErrItemInsufficient
     /\ (Called("updateVaultPermission") /\ last'.err = OK)
          => perms' = [perms EXCEPT ![last'.input.id].permission = last'.input.permission]]_vars

\* B, who is not the owner and whose grant was created at 'read', holds
\* 'write' now and has created an item.
C12_UpgradedThenCreated ==
  /\ last.op = "createCredentialItem"
  /\ last.err = OK
  /\ vaults[last.input.vault_id].owner_id # last.caller
  /\ \E p \in PermissionRows(last.input.vault_id, last.caller) :
       /\ perms[p].permission = "write"
       /\ perms[p].granted_by = vaults[last.input.vault_id].owner_id
  /\ items[last.ret.id].created_by = last.caller

\* The user a createVaultPermission call names is deactivated.
TargetInactive(call) ==
  /\ call.op = "createVaultPermission"
  /\ call.input.user_id \in DOMAIN users
  /\ ~users[call.input.user_id].is_active

\* C13 (deactivation): while user U has is_active = false every
\* createVaultPermission with target U fails and inserts nothing, with the
\* target-inactive error when the caller is admin or owner of the vault and
\* with the vault-not-found or insufficient-permission error otherwise; and
\* deleteUser and updateUser change nothing but the user's row, so every grant
\* row of U stays with its level (as do the vaults, categories and items).
C13_Deactivation ==
  [][/\ (last.op = "idle" /\ TargetInactive(last'))
          => /\ UNCHANGED db
             /\ last'.err =
                  IF last'.input.vault_id \notin DOMAIN vaults THEN ErrVaultNotFound
                  ELSE IF getUserPermissionForVault(last'.input.vault_id, last'.caller)
                            \notin {"admin", "owner"}
                    THEN ErrGrantInsufficient
                  ELSE ErrTargetInactive
     /\ (Called("deleteUser") \/ Called("updateUser"))
          => /\ UNCHANGED <<vaults, categories, items, perms>>
             /\ DOMAIN users' = DOMAIN users]_vars

\* The owner was refused a second grant to a deactivated user whose earlier
\* 'write' grant is still in place, in a vault that holds an item.
C13_InactiveKeepsGrant ==
  /\ TargetInactive(last)
  /\ last.err = ErrTargetInactive
  /\ \E p \in PermissionRows(last.input.vault_id, last.input.user_id) :
       perms[p].permission = "write"
  /\ \E i \in DOMAIN items : items[i].vault_id = last.input.vault_id

\* C13 as stated: every createVaultPermission on an existing vault whose
\* target is deactivated fails with the target-inactive error.
C13_AlwaysTargetInactive ==
  [][(last.op = "idle" /\ TargetInactive(last') /\ last'.input.vault_id \in DOMAIN vaults)
       => (last'.err = ErrTargetInactive /\ UNCHANGED db)]_vars

\* C14 (deleteVault is owner-exclusive and does not leak existence): a
\* deleteVault(V) by a caller who is not the owner of V, a holder of an
\* explicit admin grant included, changes nothing and throws the same error
\* as a deleteVault of an id that names no vault; a deleteVault by the owner
\* succeeds.
C14_OwnerExclusiveDelete ==
  [][Called("deleteVault")
       => IF last'.input \in DOMAIN vaults /\ vaults[last'.input].owner_id = last'.caller
            THEN last'.err = OK /\ last'.input \notin DOMAIN vaults'
            ELSE last'.err = ErrDeleteVault /\ UNCHANGED db]_vars

\* A user holding an explicit admin grant on the vault was refused its
\* deletion with the error of a missing vault.
C14_AdminRefusedDelete ==
  /\ last.op = "deleteVault"
  /\ last.err = ErrDeleteVault
  /\ last.input \in DOMAIN vaults
  /\ getUserPermissionForVault(last.input, last.caller) = "admin"

\* The vaults on which a user's effective permission is not none.
VisibleVaults(userId) ==
  {v \in DOMAIN vaults : getUserPermissionForVault(v, userId) # NULL}

\* C15 (vault visibility matches the evaluator): getVaultById(V, u) returns
\* the vault when V exists and getUserPermissionForVault(V, u) is not none
\* and null otherwise, as it does for an id that names no vault;
\* getVaultsByUser(u) returns the vaults on which u's permission is not none,
\* each of them once.
C15_VisibilityMatchesEvaluator ==
  /\ last.op = "getVaultById"
       => IF last.input \in VisibleVaults(last.caller)
            THEN last.ret = last.input
            ELSE last.ret = NULL
  /\ last.op = "getVaultsByUser"
       => /\ {last.ret[k] : k \in 1 .. Len(last.ret)} = VisibleVaults(last.caller)
          /\ \A j, k \in 1 .. Len(last.ret) : last.ret[j] = last.ret[k] => j = k

\* A user is shown the vault it owns once, though the join has two rows for
\* it, and is not shown the vault of another user on which it holds nothing.
C15_OwnedListedOnce ==
  /\ last.op = "getVaultsByUser"
  /\ Len(last.ret) = 1
  /\ vaults[last.ret[1]].owner_id = last.caller
  /\ Cardinality({p \in DOMAIN perms : perms[p].vault_id = last.ret[1]}) = 2
  /\ \E w \in DOMAIN vaults : getUserPermissionForVault(w, last.caller) = NULL

\* C16 (getUserVaults lists an owned vault once): getUserVaults(u) returns the
\* vaults u owns tagged 'owner' and one entry per grant row of u tagged with
\* the row's level, and a vault that u owns has no entry besides its 'owner'
\* one.
C16_OwnedVaultOnce ==
  last.op = "getUserVaults"
    => /\ last.ret.owned = {v \in DOMAIN vaults : vaults[v].owner_id = last.caller}
       /\ last.ret.granted = {p \in DOMAIN perms : perms[p].user_id = last.caller}
       /\ \A v \in last.ret.owned :
            {p \in last.ret.granted : perms[p].vault_id = v} = {}

\* C17 (the owner's explicit grant): createVault gives the owner an explicit
\* grant, so in every state reached by handlers that run one at a time each
\* vault has exactly one vault_user_permissions row whose user_id is the
\* vault's owner_id, granted by the owner, and getVaultPermissions(V) lists
\* that row.
C17_OwnerHoldsGrant ==
  /\ \A v \in DOMAIN vaults :
       /\ Cardinality(OwnerRows(v)) = 1
       /\ \A p \in OwnerRows(v) : perms[p].granted_by = vaults[v].owner_id
  /\ (last.op = "getVaultPermissions" /\ last.err = OK)
       => OwnerRows(last.input) \subseteq last.ret

\* The rows listed for a vault are the owner's and a grantee's.
C17_OwnerListed ==
  /\ last.op = "getVaultPermissions"
  /\ last.err = OK
  /\ Cardinality(last.ret) = 2
  /\ \E p \in last.ret : perms[p].user_id = vaults[last.input].owner_id

\* C17 as stated: no vault_user_permissions row has user_id equal to the
\* owner_id of its vault, and getVaultPermissions never lists the owner.
C17_OwnerNeverGranted ==
  /\ \A v \in DOMAIN vaults : OwnerRows(v) = {}
  /\ (last.op = "getVaultPermissions" /\ last.err = OK)
       => \A p \in last.ret : perms[p].user_id # vaults[last.input].owner_id

\* C18 (createVaultPermission preconditions): on an existing vault the call
\* fails with the insufficient-permission error unless the caller's effective
\* permission is admin or owner, else with target-not-found unless the target
\* user exists, else with target-inactive unless the target is active, else
\* with the duplicate error when the pair has a row, and in each of these cases
\* inserts nothing; otherwise it adds exactly one row (vault_id, user_id,
\* permission) with granted_by the caller and changes nothing else.  On a
\* vault id that names no vault it throws 'Vault not found'.
C18_GrantPreconditions ==
  [][Called("createVaultPermission")
       => LET input == last'.input
              row == [vault_id |-> input.vault_id, user_id |-> input.user_id,
                      permission |-> input.permission, granted_by |-> last'.caller]
          IN
          IF input.vault_id \notin DOMAIN vaults
            THEN last'.err = ErrVaultNotFound /\ UNCHANGED db
          ELSE IF getUserPermissionForVault(input.vault_id, last'.caller) \notin {"admin", "owner"}
            THEN last'.err = ErrGrantInsufficient /\ UNCHANGED db
          ELSE IF input.user_id \notin DOMAIN users
            THEN last'.err = ErrTargetNotFound /\ UNCHANGED db
          ELSE IF ~users[input.user_id].is_active
            THEN last'.err = ErrTargetInactive /\ UNCHANGED db
          ELSE IF PermissionRows(input.vault_id, input.user_id) # {}
            THEN last'.err = ErrDuplicate /\ UNCHANGED db
          ELSE /\ last'.err = OK
               /\ serial'.perms \notin DOMAIN perms
               /\ perms' = Insert(perms, serial'.perms, row)
               /\ UNCHANGED <<users, vaults, categories, items>>]_vars

\* A grant made by an owner: the new row carries the pair, the level asked
\* for and the caller as granted_by.
C18_GrantInserted ==
  /\ last.op = "createVaultPermission"
  /\ last.err = OK
  /\ perms[last.ret] = [vault_id |-> last.input.vault_id, user_id |-> last.input.user_id,
                         permission |-> last.input.permission, granted_by |-> last.caller]
  /\ last.caller # last.input.user_id
  /\ Cardinality(PermissionRows(last.input.vault_id, last.input.user_id)) = 1

\* The items of vault v that a search with this filter is to return.
Found(v, filter) ==
  {i \in DOMAIN items :
     /\ items[i].vault_id = v
     /\ "category_id" \in filter.present => items[i].category_id = filter.category_id
     /\ "type" \in filter.present => items[i].type = filter.type
     /\ ("query" \in filter.present /\ Trim(filter.query) # <<>>)
          => \E k \in 1 .. Len(items[i].title) :
               \E n \in k .. Len(items[i].title) :
                 [j \in 1 .. (n - k + 1) |-> LowerCase(items[i].title[k + j - 1])]
                   = [j \in 1 .. Len(Trim(filter.query)) |-> LowerCase(Trim(filter.query)[j])]}

\* C19 (searchItems scope): without vault_id the result is empty when the
\* caller owns no vault and is otherwise the items of one vault the caller
\* owns that satisfy the other conditions, so that items of vaults the caller
\* only holds a grant on and items of a second owned vault are not returned;
\* with vault_id the call fails unless the caller has read or higher on that
\* vault and returns that vault's items satisfying the other conditions.
C19_SearchScope ==
  last.op = "searchItems"
    => LET owned == {v \in DOMAIN vaults : vaults[v].owner_id = last.caller} IN
       IF "vault_id" \in last.input.present
         THEN IF /\ last.input.vault_id \in DOMAIN vaults
                 /\ getUserPermissionForVault(last.input.vault_id, last.caller)
                      \in {"read", "write", "admin", "owner"}
                THEN last.err = OK /\ DOMAIN last.ret = Found(last.input.vault_id, last.input)
                ELSE last.err = ErrItemInsufficient
         ELSE /\ last.err = OK
              /\ IF owned = {} THEN DOMAIN last.ret = {}
                 ELSE \E v \in owned : DOMAIN last.ret = Found(v, last.input)

\* The caller owns two vaults with an item each and is returned one of them.
C19_OneOwnedVaultSearched ==
  /\ last.op = "searchItems"
  /\ "vault_id" \notin last.input.present
  /\ Cardinality(DOMAIN last.ret) = 1
  /\ \E i, j \in DOMAIN items :
       /\ items[i].vault_id # items[j].vault_id
       /\ vaults[items[i].vault_id].owner_id = last.caller
       /\ vaults[items[j].vault_id].owner_id = last.caller
       /\ i \in Found(items[i].vault_id, last.input)
       /\ j \in Found(items[j].vault_id, last.input)

\* C20 (logout is permanent and token-specific): tokenBlacklist only grows,
\* logout(t) adds t and nothing else to it and changes no table, and
\* validateSession(t) returns null for every t in it; for a token that is not
\* in it, validateSession returns the user the token names when the token is
\* signed and unexpired and the user exists and is active, whatever other
\* tokens have been logged out.
C20_LogoutPermanent ==
  [][/\ auth.blacklist \subseteq auth'.blacklist
     /\ Called("logout")
          => /\ auth'.blacklist = auth.blacklist \cup {last'.input}
             /\ UNCHANGED db
     /\ Called("validateSession")
          => /\ UNCHANGED <<db, auth>>
             /\ last'.ret =
                  IF last'.input \in auth.blacklist THEN NoUser
                  ELSE IF /\ last'.input.signed
                          /\ auth.now <= last'.input.iat + TokenLife
                          /\ last'.input.userId \in DOMAIN users
                          /\ users[last'.input.userId].is_active
                    THEN last'.input.userId
                  ELSE NoUser]_vars

\* A token is accepted while another token of the same user and a token of
\* another user are logged out.
C20_OtherTokenStillValid ==
  /\ last.op = "validateSession"
  /\ last.ret = last.input.userId
  /\ \E t, u \in auth.blacklist :
       /\ t.signed /\ t.userId = last.input.userId /\ t.iat # last.input.iat
       /\ u.signed /\ u.userId # last.input.userId

\* C21 (a deactivated user cannot authenticate): login naming a user whose
\* is_active is false throws 'Account is disabled' whatever the password, the
\* right one included, and validateSession returns null for every token that
\* names a user who is deactivated or does not exist, however the token was
\* made; neither call changes a table or the blacklist.
C21_DeactivatedCannotAuthenticate ==
  [][/\ Called("login") /\ last'.input.email \in DOMAIN users
          /\ ~users[last'.input.email].is_active
          => last'.err = ErrDisabled /\ UNCHANGED <<db, auth>>
     /\ Called("validateSession")
          /\ \/ last'.input.userId \notin DOMAIN users
             \/ ~users[last'.input.userId].is_active
          => last'.ret = NoUser /\ UNCHANGED <<db, auth>>]_vars

\* A signed, unexpired token that was not logged out, naming a deactivated
\* user whose password login would accept, is refused.
C21_EarlierTokenRefused ==
  /\ last.op = "validateSession"
  /\ last.ret = NoUser
  /\ last.input.signed
  /\ auth.now <= last.input.iat + TokenLife
  /\ last.input \notin auth.blacklist
  /\ last.input.userId \in DOMAIN users
  /\ ~users[last.input.userId].is_active
  /\ users[last.input.userId].password_hash.hash.alg = "pbkdf2-sha512"

\* What generatePassword returned is made of the characters of the selected
\* sets only, with one at least of each.
WellMade(input, password) ==
  /\ \A c \in Alphabet : password[c] > 0 => c \in CharPool(input)
  /\ \A k \in Selected(input) : Tested(password, Chars(input, k))

\* C22 (generatePassword): the call throws 'No character sets selected ...'
\* exactly when the four include_* flags are false; otherwise the password has
\* exactly `length` characters, all of the selected sets (without the
\* ambiguous ones when exclude_ambiguous is set) and one at least of each, and
\* the strength is between 0 and 100, and 100 when the four sets are selected
\* and length is the maximum.
C22_GeneratedAsAsked ==
  last.op = "generatePassword" =>
    /\ last.err = ErrNoCharacterSets <=> Selected(last.input) = {}
    /\ last.err = OK <=> Selected(last.input) # {}
    /\ last.err = OK =>
         /\ Halves * Length(last.ret.password, Alphabet) = last.input.length
         /\ WellMade(last.input, last.ret.password)
         /\ last.ret.strength \in 0 .. 100
         /\ Selected(last.input) = CharacterSets /\ last.input.length = Halves * MaxLength
              => last.ret.strength = 100

\* The same with the length read as the code reads it: the password has the
\* least whole number of characters that is not below `length`.
C22_RoundedUp ==
  last.op = "generatePassword" =>
    /\ last.err = ErrNoCharacterSets <=> Selected(last.input) = {}
    /\ last.err = OK <=> Selected(last.input) # {}
    /\ last.err = OK =>
         LET n == Length(last.ret.password, Alphabet) IN
         /\ Halves * (n - 1) < last.input.length /\ last.input.length <= Halves * n
         /\ WellMade(last.input, last.ret.password)
         /\ last.ret.strength \in 0 .. 100
         /\ Selected(last.input) = CharacterSets /\ last.input.length = Halves * MaxLength
              => last.ret.strength = 100

\* A password of the greatest length with the four sets, scored 100.
C22_LongestScoresFull ==
  /\ last.op = "generatePassword" /\ last.err = OK
  /\ Selected(last.input) = CharacterSets
  /\ Length(last.ret.password, Alphabet) = MaxLength
  /\ last.ret.strength = 100

\* The operations that name a vault by its id.
VaultNamed ==
  {"createCredentialItem", "getItemsByVault", "searchItems", "createCategory",
   "getCategoriesByVault"}
NamesMissingVault(call) ==
  call.op \in VaultNamed /\ VaultOfCall(call) \cap DOMAIN vaults = {}

Frame(old, new) ==
  /\ new.vault_id = old.vault_id
  /\ new.type = old.type
  /\ new.created_by = old.created_by

\* C24 (partial update): an updateCredentialItem that returns leaves every
\* other item as it was and, of the item it names, keeps each field absent
\* from the patch (the password column character for character), stores null
\* for a category_id or password sent as null, stores the title and
\* category_id sent, and for a password sent as a non-empty string stores
\* iv:ciphertext made with the IV drawn in this call; a password sent as the
\* empty string is stored as NULL.  No step changes the vault_id, type or
\* created_by of an item that stays, and ids are those of the rows.
C24_PartialUpdate ==
  [][/\ \A i \in DOMAIN items \cap DOMAIN items' : Frame(items[i], items'[i])
     /\ (Called("updateCredentialItem") /\ last'.err = OK)
          => LET input == last'.input
                 old == items[input.id]
                 new == items'[input.id]
             IN
             /\ DOMAIN items' = DOMAIN items
             /\ \A i \in DOMAIN items \ {input.id} : items'[i] = items[i]
             /\ last'.ret.id = input.id
             /\ new.title = IF "title" \in input.present THEN input.title ELSE old.title
             /\ new.category_id =
                  IF "category_id" \in input.present THEN input.category_id
                  ELSE old.category_id
             /\ IF "password" \notin input.present
                  THEN new.password_encrypted = old.password_encrypted
                ELSE IF "password" \in input.null \/ input.password = <<>>
                  THEN new.password_encrypted = NoText
                ELSE \E iv \in SecretIVs :
                       /\ new.password_encrypted = encrypt(input.password, iv)
                       /\ StoredAs(new.password_encrypted, iv)]_vars

\* An item whose title was patched earlier is patched with a password alone:
\* the title and the category stay, the password is stored encrypted.
C24_PasswordAlonePatched ==
  /\ last.op = "updateCredentialItem" /\ last.err = OK
  /\ last.input.present = {"password"}
  /\ last.input.password = <<AsciiLimit>>
  /\ items[last.input.id].title = <<"b">>
  /\ items[last.input.id].category_id # NoCategory
  /\ items[last.input.id].password_encrypted # NoText

\* C24 as stated: a sensitive field present with a value (a string, not
\* null) is replaced by an encryption of it.
C24_ValueReencrypted ==
  [][(/\ Called("updateCredentialItem") /\ last'.err = OK
      /\ "password" \in last'.input.present
      /\ "password" \notin last'.input.null)
       => \E iv \in SecretIVs :
            StoredAs(items'[last'.input.id].password_encrypted, iv)]_vars

\* owner > admin > write > read > none
Rank(level) ==
  CASE level = "owner" -> 4 [] level = "admin" -> 3 [] level = "write" -> 2
    [] level = "read" -> 1 [] OTHER -> 0

\* C25 (one evaluator): in every reachable state, for every existing vault V,
\* user u and required level r, each of the two checkVaultPermission helpers
\* answers true exactly when the level getUserPermissionForVault(V, u) gives
\* ranks at least r, and updateVault's check admits u exactly when that level
\* is admin or owner.
C25_DecisionsAgree ==
  \A v \in DOMAIN vaults, u \in DOMAIN users :
    LET level == getUserPermissionForVault(v, u) IN
    /\ \A r \in VaultPermission :
         /\ checkVaultPermission(v, u, r) <=> Rank(level) >= Rank(r)
         /\ checkVaultPermissionCategories(v, u, r) <=> Rank(level) >= Rank(r)
    /\ (hasPermission(v, u) \/ ownerCheck(v, u)) <=> level \in {"admin", "owner"}

\* A user holds one grant row on a vault of another user, and the helpers and
\* updateVault decide differently for the row's three levels.
C25_GranteeDecided ==
  \E v \in DOMAIN vaults, u \in DOMAIN users :
    /\ ~ownerCheck(v, u)
    /\ Cardinality(PermissionRows(v, u)) = 1
    /\ checkVaultPermission(v, u, "write") /\ ~checkVaultPermission(v, u, "admin")
    /\ ~hasPermission(v, u)

\* C29 (revocation and requests in flight): the insert of a credential item
\* runs in a state where its caller holds write, admin or owner on the vault.
C29_WritesHoldPermission ==
  [][\A p \in Procs :
       (At(p, "createCredentialItem:insert") /\ txn'[p].pc = "done")
         => getUserPermissionForVault(txn[p].id, txn[p].caller) \in {"write", "admin", "owner"}]_vars

\* The errors a vault, category, item or grant operation refuses a call with.
RejectionErrors ==
  {ErrVaultNotFound, ErrPermissionNotFound, ErrCategoryNotFound, ErrItemNotFound,
   ErrTargetNotFound, ErrDeleteVault,
   ErrGrantInsufficient, ErrModifyInsufficient, ErrRevokeInsufficient,
   ErrUpdateVaultInsufficient, ErrItemInsufficient, ErrCreateCategoryInsufficient,
   ErrUpdateCategoryInsufficient, ErrVaultAccessInsufficient,
   ErrCategoryAccessInsufficient, ErrDeleteCategoryInsufficient,
   ErrTargetInactive, ErrDuplicate, ErrSelfModification, ErrRevokeOwner}

\* C26 (a rejected operation changes nothing): a call that returns a not-found,
\* insufficient-permission, target-inactive, duplicate-grant, self-modification
\* or owner-protected error leaves users, vaults, categories, credential_items
\* and vault_user_permissions as they were.
C26_RejectedChangesNothing ==
  [][(last.op = "idle" /\ last'.op # "idle" /\ last'.err \in RejectionErrors)
       => UNCHANGED <<users, vaults, categories, items, perms>>]_vars

\* The delete of an existing item was refused for want of permission, in a
\* vault with a grant besides the owner's: the item is still there.
C26_DeleteRefused ==
  /\ last.op = "deleteCredentialItem"
  /\ last.err = ErrItemInsufficient
  /\ last.input \in DOMAIN items
  /\ Cardinality(DOMAIN perms) > 1

\* C27 (category references stay valid): every credential item's category_id
\* is null or the id of an existing category of the item's vault.
C27_CategoryReferencesValid ==
  \A i \in DOMAIN items :
    \/ items[i].category_id = NoCategory
    \/ /\ items[i].category_id \in DOMAIN categories
       /\ categories[items[i].category_id].vault_id = items[i].vault_id

\* An item was filed under a default category of its vault.
C27_FiledUnderCategory ==
  \E i \in DOMAIN items :
    /\ items[i].category_id \in DOMAIN categories
    /\ categories[items[i].category_id].vault_id = items[i].vault_id

\* User u was made by createUser with this password: the stored hash is the
\* SHA-256 of the password and the stored salt.
MadeByCreateUser(u, password) ==
  /\ users[u].password_hash.salt # NoSalt
  /\ users[u].password_hash.hash = Sha256(<<password, users[u].password_hash.salt>>)

\* validateSession would return the user for this token now.
Accepted(token) ==
  /\ token \notin auth.blacklist
  /\ verifyToken(token) \in DOMAIN users
  /\ users[verifyToken(token)].is_active

\* C28 (account creation and login agree): login naming an active user made by
\* createUser with password p returns, for the password p, a token that
\* validateSession accepts, and throws 'Invalid email or password' for any
\* other password.
C28_CreatedUserLogsIn ==
  [][\A p \in Passwords :
       (/\ Called("login")
        /\ last'.input.email \in DOMAIN users
        /\ users[last'.input.email].is_active
        /\ MadeByCreateUser(last'.input.email, p))
       => IF last'.input.password = p
            THEN /\ last'.err = OK
                 /\ last'.ret.userId = last'.input.email
                 /\ Accepted(last'.ret)
            ELSE last'.err = ErrInvalidLogin]_vars

\* An active user made by createUser presented the password of the account
\* and login threw the RangeError of timingSafeEqual.
C28_OwnPasswordThrows ==
  /\ last.op = "login"
  /\ last.input.email \in DOMAIN users
  /\ users[last.input.email].is_active
  /\ MadeByCreateUser(last.input.email, last.input.password)
  /\ last.err = ErrByteLength

\* A grantee's item was inserted and the grantee holds no grant on the vault
\* any more.
C29_WrittenAfterRevoke ==
  \E i \in DOMAIN items :
    /\ items[i].vault_id \in DOMAIN vaults
    /\ vaults[items[i].vault_id].owner_id # items[i].created_by
    /\ PermissionRows(items[i].vault_id, items[i].created_by) = {}

\* The grant operations.
GrantOperations == {"createVaultPermission", "updateVaultPermission", "revokeVaultPermission"}

\* The vaults user c does not own.
VaultsOfOthers(c) == {v \in DOMAIN vaults : vaults[v].owner_id # c}

\* C30 as stated (a caller cannot alter their own grant): a grant operation
\* leaves its caller's permission on every vault the caller does not own as
\* it was.
C30_OwnGrantUnaltered ==
  [][\A c \in 1 .. MaxUsers :
       (last.op = "idle" /\ last'.op \in GrantOperations /\ last'.caller = c)
         => \A v \in VaultsOfOthers(c) :
              getUserPermissionForVault(v, c)' = getUserPermissionForVault(v, c)]_vars

\* C30 (amended): updateVaultPermission on the caller's own row fails with
\* 'Cannot modify your own permissions' (or, for a caller below admin, as
\* insufficient), and a grant operation changes its caller's permission on a
\* vault the caller does not own in one case only: revokeVaultPermission by
\* an admin grantee on their own row, which succeeds and leaves the caller
\* without access.
C30_OwnGrantOnlyRevoked ==
  [][\A c \in 1 .. MaxUsers :
       /\ (/\ Called("updateVaultPermission") /\ last'.caller = c
           /\ last'.input.id \in DOMAIN perms
           /\ perms[last'.input.id].user_id = c
           /\ perms[last'.input.id].vault_id \in VaultsOfOthers(c))
          => /\ UNCHANGED db
             /\ last'.err = IF getUserPermissionForVault(perms[last'.input.id].vault_id, c) = "admin"
                              THEN ErrSelfModification ELSE ErrModifyInsufficient
       /\ (last.op = "idle" /\ last'.op \in GrantOperations /\ last'.caller = c)
          => \A v \in VaultsOfOthers(c) :
               \/ getUserPermissionForVault(v, c)' = getUserPermissionForVault(v, c)
               \/ /\ last'.op = "revokeVaultPermission"
                  /\ last'.err = OK
                  /\ perms[last'.input].user_id = c
                  /\ perms[last'.input].vault_id = v
                  /\ getUserPermissionForVault(v, c) = "admin"
                  /\ getUserPermissionForVault(v, c)' = NULL]_vars

\* A caller who does not own the vault revoked a grant on it and holds nothing
\* on it: the grant revoked was the caller's own, at 'admin'.
C30_AdminRevokedSelf ==
  /\ last.op = "revokeVaultPermission"
  /\ last.err = OK
  /\ \E v \in DOMAIN vaults :
       /\ vaults[v].owner_id # last.caller
       /\ PermissionRows(v, last.caller) = {}

====
